---- MODULE Spec2Model ----
(***************************************************************************)
(* Citation protocol of document_kb.                                       *)
(*                                                                         *)
(*   - lib/citation-parser.ts : extractSourcesSection (the Sources-block   *)
(*     decoder) and parseTextWithFootnotes / parseFootnoteCitations (the   *)
(*     inline footnote segmenter).                                         *)
(*   - app/api/qa/route.ts    : POST, which assembles the context text and *)
(*     the numbered source list and encodes it as sourcesList.             *)
(*   - app/page.tsx           : MessageContent / SourcesSection, which     *)
(*     decode the growing message text on every render.                    *)
(*                                                                         *)
(* JavaScript strings are TLA+ strings; positions are 1-based here where   *)
(* the source is 0-based.  A regular expression is modelled by the         *)
(* leftmost, greedy, backtracking match the JavaScript engine computes.    *)
(* An optional value (undefined / null) is a sequence of length 0 or 1.    *)
(***************************************************************************)
EXTENDS Integers, Sequences, FiniteSets, TLC

VARIABLES
    text,            \* page.tsx: the message text received so far
    mainText,        \* page.tsx MessageContent: extractSourcesSection(text).mainText
    sources,         \* page.tsx SourcesSection: extractSourcesSection(text).sources
    segments,        \* parseTextWithFootnotes(text)
    nChunks,         \* number of stream chunks appended to text
    pc,              \* qa/route.ts POST: position of the request handler
    searchResults,   \* qa/route.ts POST: searchResults.results
    documentDetails, \* qa/route.ts POST: documentDetails (one slot per hit)
    settleOrder,     \* qa/route.ts POST: the hits in the order their documents.get settled
    contextBlocks,   \* qa/route.ts POST: the per-hit blocks of context
    context,         \* qa/route.ts POST: context
    qaSources,       \* qa/route.ts POST: sources
    sourcesList,     \* qa/route.ts POST: sourcesList
    response,        \* qa/route.ts POST: the response returned, NoResponse before
    messages,        \* qa/route.ts POST: messages of the request body
    scanPc,          \* citation-parser.ts: position of the call in progress
    scanFn,          \* citation-parser.ts: the function called
    scanText,        \* citation-parser.ts: its argument text
    regexLastIndex,  \* citation-parser.ts: lastIndex of the /g regex, as a position
    scanLastIndex,   \* parseTextWithFootnotes: lastIndex, as a position
    scanOut,         \* citation-parser.ts: segments / citations pushed so far
    uploadPc,        \* uploadDocument: position of the server action
    formData,        \* uploadDocument: the fields of formData
    uploadResponse,  \* uploadDocument: the response returned
    uploadFileCalls, \* uploadDocument: calls of client.memories.uploadFile made
    memories,        \* the store: the memories client.memories.list returns
    deletePc,        \* collections/[name] DELETE: position of the handler
    collectionName,  \* collections/[name] DELETE: collectionName
    listed,          \* collections/[name] DELETE: memories.memories still to visit
    attempted,       \* collections/[name] DELETE: ids passed to client.memories.delete
    deletedCount,    \* collections/[name] DELETE: deletedCount
    deleteResponse,  \* collections/[name] DELETE: the response returned
    createBody,      \* collections POST: the body of the request
    createResponse,  \* collections POST: the response returned
    viewerOpen,      \* page.tsx ChatInterface: viewerOpen
    selectedDocId,   \* page.tsx ChatInterface: selectedDocId
    doc,             \* page.tsx DocumentViewerDialog: doc
    isLoading,       \* page.tsx DocumentViewerDialog: isLoading
    pendingGets,     \* page.tsx DocumentViewerDialog: getDocument calls in flight
    fetches          \* page.tsx DocumentViewerDialog: getDocument calls made

vars == <<text, mainText, sources, segments, nChunks, pc, searchResults,
          documentDetails, settleOrder, contextBlocks, context, qaSources,
          sourcesList,
          response, messages, scanPc, scanFn, scanText, regexLastIndex,
          scanLastIndex, scanOut, uploadPc, formData, uploadResponse,
          uploadFileCalls, memories, deletePc, collectionName, listed,
          attempted, deletedCount, deleteResponse, createBody, createResponse,
          viewerOpen,
          selectedDocId, doc, isLoading, pendingGets, fetches>>

streamVars == <<text, mainText, sources, segments, nChunks>>

qaVars == <<pc, searchResults, documentDetails, settleOrder, contextBlocks, context,
            qaSources, sourcesList, response>>

requestVars == <<messages>>

scanVars == <<scanPc, scanFn, scanText, regexLastIndex, scanLastIndex,
              scanOut>>

uploadVars == <<uploadPc, formData, uploadResponse, uploadFileCalls>>

storeVars == <<memories, deletePc, collectionName, listed, attempted,
               deletedCount, deleteResponse, createBody, createResponse>>

viewerVars == <<viewerOpen, selectedDocId, doc, isLoading, pendingGets, fetches>>

\* the variables of the other components, for the actions of the page and of
\* the question handler
otherVars == <<requestVars, scanVars, uploadVars, storeVars, viewerVars>>

(***************************************************************************)
(* Bounds of the model.                                                    *)
(***************************************************************************)
MaxChunks == 4

MaxHits == 2

(***************************************************************************)
(* Characters and strings.                                                 *)
(***************************************************************************)
\* s.charAt(i - 1): the empty string outside the string
At(s, i) == IF i >= 1 /\ i <= Len(s) THEN SubSeq(s, i, i) ELSE ""

\* the class \s of a regular expression, and the characters trim() removes
\* (those of them that the texts of the model hold)
IsWs(c) == c \in {" ", "\n", "\t", "\r"}

\* the class \d
IsDigit(c) == c \in {"0", "1", "2", "3", "4", "5", "6", "7", "8", "9"}

\* the canonical form the /i flag compares characters in (the pattern holds
\* no letter but those of the word Sources)
LowerCase(c) ==
    CASE c = "S" -> "s" [] c = "O" -> "o" [] c = "U" -> "u" [] c = "R" -> "r"
      [] c = "C" -> "c" [] c = "E" -> "e" [] OTHER -> c

\* s.substring(i - 1): the empty string when i is past the end
From(s, i) == IF i > Len(s) THEN "" ELSE SubSeq(s, i, Len(s))

\* s.substring(0, i - 1)
Before(s, i) == IF i <= 1 THEN "" ELSE SubSeq(s, 1, i - 1)

\* the first position >= i that holds no whitespace (greedy \s*)
RECURSIVE SkipWs(_, _)
SkipWs(s, i) == IF IsWs(At(s, i)) THEN SkipWs(s, i + 1) ELSE i

\* the first position >= i that holds no digit (greedy \d*)
RECURSIVE SkipDigits(_, _)
SkipDigits(s, i) == IF IsDigit(At(s, i)) THEN SkipDigits(s, i + 1) ELSE i

\* the last position <= i that holds no whitespace, 0 when there is none
RECURSIVE SkipWsBack(_, _)
SkipWsBack(s, i) == IF i >= 1 /\ IsWs(At(s, i)) THEN SkipWsBack(s, i - 1) ELSE i

\* s.indexOf(c, i - 1) + 1 for a one-character c: the first position >= i
\* that holds c, 0 when c does not occur
IndexOfFrom(s, c, i) ==
    LET found == {p \in i..Len(s) : At(s, p) = c}
    IN  IF found = {} THEN 0
        ELSE CHOOSE p \in found : \A r \in found : p <= r

\* whether w occurs in s at position i
StartsWithAt(s, i, w) ==
    /\ i >= 1
    /\ i + Len(w) - 1 <= Len(s)
    /\ SubSeq(s, i, i + Len(w) - 1) = w

\* whether the lower-case word w occurs in s at position i, ignoring case
MatchCI(s, i, w) ==
    /\ i >= 1
    /\ i + Len(w) - 1 <= Len(s)
    /\ \A k \in 1..Len(w) : LowerCase(At(s, i + k - 1)) = At(w, k)

\* String.prototype.trim
Trim(s) ==
    LET a == SkipWs(s, 1)
        b == SkipWsBack(s, Len(s))
    IN  IF a > b THEN "" ELSE SubSeq(s, a, b)

\* s.split(c) for a one-character separator c
RECURSIVE Split(_, _)
Split(s, c) ==
    LET i == IndexOfFrom(s, c, 1)
    IN  IF i = 0 THEN <<s>>
        ELSE <<Before(s, i)>> \o Split(From(s, i + 1), c)

\* array.join(sep)
RECURSIVE Join(_, _)
Join(parts, sep) ==
    IF Len(parts) = 0 THEN ""
    ELSE IF Len(parts) = 1 THEN parts[1]
    ELSE parts[1] \o sep \o Join(Tail(parts), sep)

\* the value of one decimal digit
DigitValue(c) ==
    CASE c = "0" -> 0 [] c = "1" -> 1 [] c = "2" -> 2 [] c = "3" -> 3
      [] c = "4" -> 4 [] c = "5" -> 5 [] c = "6" -> 6 [] c = "7" -> 7
      [] c = "8" -> 8 [] c = "9" -> 9

\* parseInt(s, 10) of a non-empty string of digits
RECURSIVE ParseInt(_)
ParseInt(s) ==
    IF Len(s) = 1 THEN DigitValue(s)
    ELSE 10 * ParseInt(SubSeq(s, 1, Len(s) - 1)) + DigitValue(At(s, Len(s)))

\* `${n}` of a non-negative integer
RECURSIVE NumberToString(_)
NumberToString(n) ==
    IF n < 10 THEN At("0123456789", n + 1)
    ELSE NumberToString(n \div 10) \o At("0123456789", (n % 10) + 1)

(***************************************************************************)
(* lib/citation-parser.ts: extractSourcesSection.                          *)
(***************************************************************************)
\* the last position in a..b that holds a line feed, 0 when there is none
RECURSIVE LastNewline(_, _, _)
LastNewline(s, a, b) ==
    IF b < a THEN 0
    ELSE IF At(s, b) = "\n" THEN b
    ELSE LastNewline(s, a, b - 1)

\* sourcesRegexAt without the i flag: only 'Sources' as written is the word
sourcesRegexAtCaseSensitive(s, p) ==
    IF ~StartsWithAt(s, p, "##") THEN 0
    ELSE LET q == SkipWs(s, p + 2)
         IN  IF ~StartsWithAt(s, q, "Sources") THEN 0
             ELSE LET e == SkipWs(s, q + 7)
                      k == LastNewline(s, q + 7, e - 1)
                  IN  IF k = 0 THEN 0
                      ELSE IF At(s, k + 1) = "\n" THEN k + 2
                      ELSE k + 1

\* sourcesRegexAt with the line feed after the word optional (\s*\n?\n?)
sourcesRegexAtNoLineFeed(s, p) ==
    IF ~StartsWithAt(s, p, "##") THEN 0
    ELSE LET q == SkipWs(s, p + 2)
         IN  IF ~MatchCI(s, q, "sources") THEN 0
             ELSE SkipWs(s, q + 7)

\* /##\s*Sources\s*\n\n?([\s\S]*)$/i tried at position p: 0 when it does not
\* match there, else the position where capture group 1 starts.  The second
\* \s* is greedy and gives characters back until a line feed follows it.
sourcesRegexAt(s, p) ==
    IF ~StartsWithAt(s, p, "##") THEN 0
    ELSE LET q == SkipWs(s, p + 2)
         IN  IF ~MatchCI(s, q, "sources") THEN 0
             ELSE LET e == SkipWs(s, q + 7)
                      k == LastNewline(s, q + 7, e - 1)
                  IN  IF k = 0 THEN 0
                      ELSE IF At(s, k + 1) = "\n" THEN k + 2
                      ELSE k + 1

\* sourcesRegexSearch that returns the rightmost match instead of the leftmost
sourcesRegexSearchLast(s, p) ==
    LET found == {i \in p..Len(s) : sourcesRegexAt(s, i) # 0}
    IN  IF found = {} THEN 0
        ELSE CHOOSE i \in found : \A r \in found : r <= i

\* the leftmost position >= p where sourcesRegex matches, 0 when there is none
sourcesRegexSearch(s, p) ==
    LET found == {i \in p..Len(s) : sourcesRegexAt(s, i) # 0}
    IN  IF found = {} THEN 0
        ELSE CHOOSE i \in found : \A r \in found : i <= r

\* sourcesRegexMatch that reports the last heading of the text
sourcesRegexMatchLast(s) ==
    LET p == sourcesRegexSearchLast(s, 1)
    IN  IF p = 0 THEN [index |-> 0, group1 |-> ""]
        ELSE [index |-> p, group1 |-> From(s, sourcesRegexAt(s, p))]

\* text.match(sourcesRegex): index is match.index + 1 (0: no match), group1
\* is match[1]
sourcesRegexMatch(s) ==
    LET p == sourcesRegexSearch(s, 1)
    IN  IF p = 0 THEN [index |-> 0, group1 |-> ""]
        ELSE [index |-> p, group1 |-> From(s, sourcesRegexAt(s, p))]

\* collectionsGroup of a pattern with no Collections group
collectionsGroupAbsent(line, i) == <<>>

\* the optional group (?:\s*\(Collections:\s*([^)]+)\))? tried at position i
\* of a line: capture group 4, absent when the group does not take part
collectionsGroup(line, i) ==
    LET a == SkipWs(line, i)
    IN  IF ~StartsWithAt(line, a, "(Collections:") THEN <<>>
        ELSE LET s0 == a + 13
                 b == SkipWs(line, s0)
                 c == IndexOfFrom(line, ")", s0)
             IN  IF c = 0 THEN <<>>
                 ELSE IF b < c THEN <<SubSeq(line, b, c - 1)>>
                 ELSE IF b - 1 >= s0 THEN <<SubSeq(line, b - 1, c - 1)>>
                 ELSE <<>>

\* numberedMatch with a url that runs to the last ')' of the line: \((.+)\)
numberedMatchGreedyUrl(line) ==
    LET no == [matched |-> FALSE, g1 |-> "", g2 |-> "", g3 |-> "", g4 |-> <<>>]
        a == SkipWs(line, 1)
        b == SkipDigits(line, a)
        c == SkipWs(line, b + 1)
        d == IndexOfFrom(line, "]", c + 1)
        closing == {i \in (d + 2)..Len(line) : At(line, i) = ")"}
        f == IF closing = {} THEN 0 ELSE CHOOSE i \in closing : \A j \in closing : j <= i
    IN  IF b = a \/ At(line, b) # "." THEN no
        ELSE IF At(line, c) # "[" THEN no
        ELSE IF d = 0 \/ d = c + 1 THEN no
        ELSE IF At(line, d + 1) # "(" THEN no
        ELSE IF f = 0 \/ f = d + 2 THEN no
        ELSE [matched |-> TRUE,
              g1 |-> SubSeq(line, a, b - 1),
              g2 |-> SubSeq(line, c + 1, d - 1),
              g3 |-> SubSeq(line, d + 2, f - 1),
              g4 |-> collectionsGroup(line, f + 1)]

\* line.match(/^\s*(\d+)\.\s*\[([^\]]+)\]\(([^)]+)\)(?:\s*\(Collections:\s*([^)]+)\))?/)
numberedMatch(line) ==
    LET no == [matched |-> FALSE, g1 |-> "", g2 |-> "", g3 |-> "", g4 |-> <<>>]
        a == SkipWs(line, 1)
        b == SkipDigits(line, a)
        c == SkipWs(line, b + 1)
        d == IndexOfFrom(line, "]", c + 1)
        f == IndexOfFrom(line, ")", d + 2)
    IN  IF b = a \/ At(line, b) # "." THEN no
        ELSE IF At(line, c) # "[" THEN no
        ELSE IF d = 0 \/ d = c + 1 THEN no
        ELSE IF At(line, d + 1) # "(" THEN no
        ELSE IF f = 0 \/ f = d + 2 THEN no
        ELSE [matched |-> TRUE,
              g1 |-> SubSeq(line, a, b - 1),
              g2 |-> SubSeq(line, c + 1, d - 1),
              g3 |-> SubSeq(line, d + 2, f - 1),
              g4 |-> collectionsGroup(line, f + 1)]

\* TrimAndDropEmpty without the map(c => c.trim())
RECURSIVE DropEmptyUntrimmed(_)
DropEmptyUntrimmed(items) ==
    IF Len(items) = 0 THEN <<>>
    ELSE (IF Len(Head(items)) > 0 THEN <<Head(items)>> ELSE <<>>)
         \o DropEmptyUntrimmed(Tail(items))

\* TrimAndDropEmpty without the filter(c => c.length > 0)
TrimOnly(items) == [i \in 1..Len(items) |-> Trim(items[i])]

\* array.filter(x => x.length > 0) after array.map(c => c.trim())
RECURSIVE TrimAndDropEmpty(_)
TrimAndDropEmpty(items) ==
    IF Len(items) = 0 THEN <<>>
    ELSE LET t == Trim(Head(items))
         IN  (IF Len(t) > 0 THEN <<t>> ELSE <<>>) \o TrimAndDropEmpty(Tail(items))

\* url.replace('doc://', '') for a url that starts with 'doc://'
StripDocPrefix(url) == From(url, 7)

\* SourceItemOf with url.includes('doc://') for url.startsWith('doc://')
SourceItemOfIncludes(m) ==
    LET url == m.g3
        isDocumentLink == \E p \in 1..Len(url) : StartsWithAt(url, p, "doc://")
    IN  [number |-> ParseInt(m.g1),
         title |-> m.g2,
         url |-> url,
         isDocumentLink |-> isDocumentLink,
         documentId |-> IF isDocumentLink THEN <<StripDocPrefix(url)>> ELSE <<>>,
         collections |-> IF Len(m.g4) = 1
                         THEN TrimAndDropEmpty(Split(m.g4[1], ","))
                         ELSE <<>>]

\* the SourceItem pushed for a matching line (citation-parser.ts 61-80)
SourceItemOf(m) ==
    LET url == m.g3
        isDocumentLink == StartsWithAt(url, 1, "doc://")
    IN  [number |-> ParseInt(m.g1),
         title |-> m.g2,
         url |-> url,
         isDocumentLink |-> isDocumentLink,
         documentId |-> IF isDocumentLink THEN <<StripDocPrefix(url)>> ELSE <<>>,
         collections |-> IF Len(m.g4) = 1
                         THEN TrimAndDropEmpty(Split(m.g4[1], ","))
                         ELSE <<>>]

\* lines = sourcesText.split('\n').filter(line => line.trim())
RECURSIVE NonBlank(_)
NonBlank(ls) ==
    IF Len(ls) = 0 THEN <<>>
    ELSE (IF Len(Trim(Head(ls))) > 0 THEN <<Head(ls)>> ELSE <<>>) \o NonBlank(Tail(ls))

\* ParseSourceLines that leaves the loop at the first line that does not match
RECURSIVE ParseSourceLinesUntilMismatch(_)
ParseSourceLinesUntilMismatch(ls) ==
    IF Len(ls) = 0 THEN <<>>
    ELSE LET m == numberedMatch(Head(ls))
         IN  IF m.matched
             THEN <<SourceItemOf(m)>> \o ParseSourceLinesUntilMismatch(Tail(ls))
             ELSE <<>>

\* ParseSourceLines that pushes a source only when no source pushed before
\* it has the same number
RECURSIVE ParseSourceLinesDeduplicated(_)
ParseSourceLinesDeduplicated(ls) ==
    IF Len(ls) = 0 THEN <<>>
    ELSE LET m == numberedMatch(Head(ls))
             later == SelectSeq(Tail(ls),
                          LAMBDA l : ~(/\ m.matched
                                       /\ numberedMatch(l).matched
                                       /\ ParseInt(numberedMatch(l).g1) = ParseInt(m.g1)))
         IN  (IF m.matched THEN <<SourceItemOf(m)>> ELSE <<>>)
             \o ParseSourceLinesDeduplicated(later)

\* for (const line of lines) { ... if (numberedMatch) sources.push(...) }
RECURSIVE ParseSourceLines(_)
ParseSourceLines(ls) ==
    IF Len(ls) = 0 THEN <<>>
    ELSE LET m == numberedMatch(Head(ls))
         IN  (IF m.matched THEN <<SourceItemOf(m)>> ELSE <<>>)
             \o ParseSourceLines(Tail(ls))

\* String.prototype.trimEnd
TrimEnd(s) == Before(s, SkipWsBack(s, Len(s)) + 1)

\* extractSourcesSection that removes only the white space at the end of mainText
extractSourcesSectionTrimEnd(s) ==
    LET match == sourcesRegexMatch(s)
    IN  IF match.index # 0
        THEN [mainText |-> TrimEnd(Before(s, match.index)),
              sources |-> ParseSourceLines(NonBlank(Split(Trim(match.group1), "\n")))]
        ELSE [mainText |-> s, sources |-> <<>>]

\* extractSourcesSection that trims the text it returns when no heading is found
extractSourcesSectionTrimmed(s) ==
    LET match == sourcesRegexMatch(s)
    IN  IF match.index # 0
        THEN [mainText |-> Trim(Before(s, match.index)),
              sources |-> ParseSourceLines(NonBlank(Split(Trim(match.group1), "\n")))]
        ELSE [mainText |-> Trim(s), sources |-> <<>>]

extractSourcesSection(s) ==
    LET match == sourcesRegexMatch(s)
    IN  IF match.index # 0
        THEN [mainText |-> Trim(Before(s, match.index)),
              sources |-> ParseSourceLines(NonBlank(Split(Trim(match.group1), "\n")))]
        ELSE [mainText |-> s, sources |-> <<>>]

(***************************************************************************)
(* lib/citation-parser.ts: parseFootnoteCitations, parseTextWithFootnotes. *)
(***************************************************************************)
\* footnoteRegexAt for the pattern /\[(\d)\]/: one digit only
footnoteRegexAtOneDigit(s, p) ==
    IF At(s, p) = "[" /\ IsDigit(At(s, p + 1)) /\ At(s, p + 2) = "]" THEN p + 3 ELSE 0

\* /\[(\d+)\]/ tried at position p: 0 when it does not match there, else the
\* position after the match
footnoteRegexAt(s, p) ==
    IF At(s, p) # "[" THEN 0
    ELSE LET e == SkipDigits(s, p + 1)
         IN  IF e > p + 1 /\ At(s, e) = "]" THEN e + 1 ELSE 0

\* footnoteRegex.exec(text) with regex.lastIndex = from - 1: the position of
\* the leftmost match at or after from, 0 when there is none
footnoteRegexExec(s, from) ==
    LET found == {p \in from..Len(s) : footnoteRegexAt(s, p) # 0}
    IN  IF found = {} THEN 0
        ELSE CHOOSE p \in found : \A r \in found : p <= r

\* the citation built from a match at p (citation-parser.ts 24-30, 115-125)
CitationAt(s, p) ==
    LET fullMatch == SubSeq(s, p, footnoteRegexAt(s, p) - 1)
    IN  [fullMatch |-> fullMatch,
         citationNumber |-> ParseInt(SubSeq(fullMatch, 2, Len(fullMatch) - 1))]

\* the while loop of parseFootnoteCitations, from regex.lastIndex = from - 1
RECURSIVE FootnoteCitationsFrom(_, _)
FootnoteCitationsFrom(s, from) ==
    LET p == footnoteRegexExec(s, from)
    IN  IF p = 0 THEN <<>>
        ELSE <<CitationAt(s, p)>> \o FootnoteCitationsFrom(s, footnoteRegexAt(s, p))

parseFootnoteCitations(s) == FootnoteCitationsFrom(s, 1)

\* a text segment; citation is absent
TextSegment(content) == [type |-> "text", content |-> content, citation |-> <<>>]

\* a citation segment
CitationSegment(c) == [type |-> "citation", content |-> c.fullMatch, citation |-> <<c>>]

\* SegmentsFrom without the push of the text that remains after the last match
RECURSIVE SegmentsFromNoRemainder(_, _)
SegmentsFromNoRemainder(s, lastIndex) ==
    LET p == footnoteRegexExec(s, lastIndex)
    IN  IF p = 0 THEN <<>>
        ELSE (IF p > lastIndex THEN <<TextSegment(SubSeq(s, lastIndex, p - 1))>> ELSE <<>>)
             \o <<CitationSegment(CitationAt(s, p))>>
             \o SegmentsFromNoRemainder(s, p + Len(CitationAt(s, p).fullMatch))

\* the while loop and the trailing push of parseTextWithFootnotes, from
\* position lastIndex (the regex's lastIndex is the same position)
RECURSIVE SegmentsFrom(_, _)
SegmentsFrom(s, lastIndex) ==
    LET p == footnoteRegexExec(s, lastIndex)
    IN  IF p = 0
        THEN IF lastIndex <= Len(s) THEN <<TextSegment(From(s, lastIndex))>> ELSE <<>>
        ELSE (IF p > lastIndex THEN <<TextSegment(SubSeq(s, lastIndex, p - 1))>> ELSE <<>>)
             \o <<CitationSegment(CitationAt(s, p))>>
             \o SegmentsFrom(s, p + Len(CitationAt(s, p).fullMatch))

parseTextWithFootnotes(s) == SegmentsFrom(s, 1)

(***************************************************************************)
(* app/api/qa/route.ts: POST.  A hit is one element of                     *)
(* searchResults.results: documentId, title, chunks (content, isRelevant,  *)
(* score) and metadata (originalUrl, url).  containerTags is what          *)
(* client.documents.get(documentId) returns for the document.  The fields  *)
(* type and score of a hit are copied to the source and read by nothing;   *)
(* they are left out.                                                      *)
(***************************************************************************)
\* whether an optional string is truthy: present and not empty
Truthy(opt) == Len(opt) = 1 /\ Len(opt[1]) > 0

\* a || b || null for optional strings
FirstTruthy(a, b) == IF Truthy(a) THEN a ELSE IF Truthy(b) THEN b ELSE <<>>

\* the place of x in a list sorted by score descending: after every element
\* whose score is at least x's (Array.prototype.sort is stable)
RECURSIVE InsertByScore(_, _)
InsertByScore(sorted, x) ==
    IF Len(sorted) = 0 THEN <<x>>
    ELSE IF Head(sorted).score >= x.score THEN <<Head(sorted)>> \o InsertByScore(Tail(sorted), x)
    ELSE <<x>> \o sorted

\* chunks.sort((a, b) => (b.score || 0) - (a.score || 0)), from the elements
\* already placed in acc
RECURSIVE SortByScore(_, _)
SortByScore(chunks, acc) ==
    IF Len(chunks) = 0 THEN acc
    ELSE SortByScore(Tail(chunks), InsertByScore(acc, Head(chunks)))

\* result.chunks.filter((chunk) => chunk.isRelevant)
RelevantOf(chunks) == SelectSeq(chunks, LAMBDA c : c.isRelevant)

\* result.chunks after the block for the result is built: sorted in place
\* when no chunk is marked relevant (route.ts 115-118)
ChunksAfter(chunks) ==
    IF Len(RelevantOf(chunks)) = 0 THEN SortByScore(chunks, <<>>) ELSE chunks

\* SelectedChunks that orders the chunks marked relevant by score as well
SelectedChunksByScore(chunks) ==
    IF Len(RelevantOf(chunks)) = 0 THEN SortByScore(chunks, <<>>)
    ELSE SortByScore(RelevantOf(chunks), <<>>)

\* relevantChunks after route.ts 112-118
SelectedChunks(chunks) ==
    IF Len(RelevantOf(chunks)) = 0 THEN SortByScore(chunks, <<>>) ELSE RelevantOf(chunks)

\* array.slice(0, n)
Slice(a, n) == IF Len(a) <= n THEN a ELSE SubSeq(a, 1, n)

\* the block of the result at position index (1-based; route.ts 120-125)
ContextBlock(result, index) ==
    LET top == Slice(SelectedChunks(result.chunks), 3)
        chunks == Join([i \in 1..Len(top) |-> top[i].content], "\n\n")
    IN  "[Document " \o NumberToString(index) \o ": \"" \o result.title
        \o "\" (ID: " \o result.documentId \o ")]\n" \o chunks

\* WithoutAll that filters nothing
WithAll(tags) == tags

\* containerTags.filter((tag) => tag !== 'all')
WithoutAll(tags) == SelectSeq(tags, LAMBDA t : t # "all")

\* (fullDoc as any)?.containerTags || [] for a settled detail slot
ContainerTagsOf(detail) == IF Len(detail.doc) = 1 THEN detail.doc[1].containerTags ELSE <<>>

\* SourceOf that numbers the sources by the 0-based index
SourceOfZeroBased(result, index, detail) ==
    [id |-> result.documentId,
     title |-> result.title,
     url |-> FirstTruthy(result.metadata.originalUrl, result.metadata.url),
     collections |-> WithoutAll(ContainerTagsOf(detail)),
     relevantChunks |-> IF Len(RelevantOf(result.chunks)) # 0
                        THEN Len(RelevantOf(result.chunks))
                        ELSE Len(result.chunks),
     citationNumber |-> index - 1]

\* the source of the result at position index (1-based; route.ts 130-151)
SourceOf(result, index, detail) ==
    [id |-> result.documentId,
     title |-> result.title,
     url |-> FirstTruthy(result.metadata.originalUrl, result.metadata.url),
     collections |-> WithoutAll(ContainerTagsOf(detail)),
     relevantChunks |-> IF Len(RelevantOf(result.chunks)) # 0
                        THEN Len(RelevantOf(result.chunks))
                        ELSE Len(result.chunks),
     citationNumber |-> index]

\* SourceLine that writes the Collections group for an empty list as well
SourceLineAlwaysCollections(source) ==
    LET collectionsInfo == " (Collections: " \o Join(source.collections, ", ") \o ")"
    IN  IF Truthy(source.url)
        THEN NumberToString(source.citationNumber) \o ". [" \o source.title \o "]("
             \o source.url[1] \o ")" \o collectionsInfo
        ELSE NumberToString(source.citationNumber) \o ". [" \o source.title \o "](doc://"
             \o source.id \o ")" \o collectionsInfo

\* the line of one source (route.ts 154-162)
SourceLine(source) ==
    LET collectionsInfo ==
            IF Len(source.collections) > 0
            THEN " (Collections: " \o Join(source.collections, ", ") \o ")"
            ELSE ""
    IN  IF Truthy(source.url)
        THEN NumberToString(source.citationNumber) \o ". [" \o source.title \o "]("
             \o source.url[1] \o ")" \o collectionsInfo
        ELSE NumberToString(source.citationNumber) \o ". [" \o source.title \o "](doc://"
             \o source.id \o ")" \o collectionsInfo

\* sourcesList (route.ts 153-164)
SourcesListOf(srcs) == Join([i \in 1..Len(srcs) |-> SourceLine(srcs[i])], "\n")

(***************************************************************************)
(* app/page.tsx: an assistant message streams in.  The transport appends   *)
(* each chunk to the message text and the message is rendered again:       *)
(* MessageContent and SourcesSection decode the whole text received so     *)
(* far.  The chunks are fragments an answer can be cut into: prose with a  *)
(* complete and a dangling footnote, white space, a heading with and       *)
(* without its line break, a truncated heading, a lone '#', and source     *)
(* lines.                                                                  *)
(***************************************************************************)
Chunks ==
    { "A [1][2",
      " ",
      "\n",
      "## Sources\n",
      "## sources",
      "## Sour",
      "#",
      "1. [T](doc://d)\n",
      "2. [U](http://u) (Collections: a, b)\n" }

(***************************************************************************)
(* The state of each component before it is used.                          *)
(***************************************************************************)
\* the components other than the page and the question handler before they
\* are used: no request to POST /api/qa, no call of the parser in progress,
\* uploadDocument not called, an empty store, no request to the collection
\* routes, and the viewer as useState initialises it (page.tsx 202-203,
\* 120-121)
OtherIdle ==
    /\ messages = <<>>
    /\ scanPc = "idle"
    /\ scanFn = ""
    /\ scanText = ""
    /\ regexLastIndex = 1
    /\ scanLastIndex = 1
    /\ scanOut = <<>>
    /\ uploadPc = "idle"
    /\ formData = [file |-> <<>>, containerTags |-> <<>>, metadata |-> <<>>]
    /\ uploadResponse = <<>>
    /\ uploadFileCalls = <<>>
    /\ memories = <<>>
    /\ deletePc = "idle"
    /\ collectionName = ""
    /\ listed = <<>>
    /\ attempted = <<>>
    /\ deletedCount = 0
    /\ deleteResponse = <<>>
    /\ createBody = <<>>
    /\ createResponse = <<>>
    /\ viewerOpen = FALSE
    /\ selectedDocId = <<>>
    /\ doc = <<>>
    /\ isLoading = FALSE
    /\ pendingGets = {}
    /\ fetches = 0

\* no response yet
NoResponse == [type |-> "none", answer |-> "", sources |-> <<>>]

\* result.toTextStreamResponse() (route.ts 195): the generated text, streamed
TextStreamResponse == [type |-> "textStream", answer |-> "", sources |-> <<>>]

\* the answer of the handler when the search has no result (route.ts 89-90)
NoResultsAnswer ==
    "I couldn't find any relevant information in the uploaded documents to answer your question."

\* Response.json({ answer, sources: [], confidence: 0 }) (route.ts 88-93)
NoResultsResponse == [type |-> "json", answer |-> NoResultsAnswer, sources |-> <<>>]

\* the state of the request handler before any request
QAIdle ==
    /\ pc = "idle"
    /\ searchResults = <<>>
    /\ documentDetails = <<>>
    /\ settleOrder = <<>>
    /\ contextBlocks = <<>>
    /\ context = ""
    /\ qaSources = <<>>
    /\ sourcesList = ""
    /\ response = NoResponse

\* the render of a message whose text is t
Render(t) ==
    LET decoded == extractSourcesSection(t)
    IN  /\ mainText' = decoded.mainText
        /\ sources' = decoded.sources
        /\ segments' = parseTextWithFootnotes(t)

Init ==
    /\ text = ""
    /\ mainText = ""
    /\ sources = <<>>
    /\ segments = <<>>
    /\ nChunks = 0
    /\ QAIdle
    /\ OtherIdle

StreamChunk(c) ==
    /\ nChunks < MaxChunks
    /\ nChunks' = nChunks + 1
    /\ text' = text \o c
    /\ Render(text \o c)
    /\ UNCHANGED qaVars
    /\ UNCHANGED otherVars

Next == \E c \in Chunks : StreamChunk(c)

Spec == Init /\ [][Next]_vars

(***************************************************************************)
(* app/api/qa/route.ts: POST, one request.  The documents the search can   *)
(* return: plain ones, one whose title holds ']', one with an empty title, *)
(* one whose url holds ')', and two whose collection name holds a comma.   *)
(***************************************************************************)
NoMetadata == [originalUrl |-> <<>>, url |-> <<>>]

ChunksA ==
    << [content |-> "a1", isRelevant |-> FALSE, score |-> 9],
       [content |-> "a2", isRelevant |-> TRUE, score |-> 7] >>

ChunksB ==
    << [content |-> "b1", isRelevant |-> FALSE, score |-> 2],
       [content |-> "b2", isRelevant |-> FALSE, score |-> 9],
       [content |-> "b3", isRelevant |-> FALSE, score |-> 5],
       [content |-> "b4", isRelevant |-> FALSE, score |-> 9] >>

ChunksC ==
    << [content |-> "c1", isRelevant |-> TRUE, score |-> 1],
       [content |-> "c2", isRelevant |-> TRUE, score |-> 8],
       [content |-> "c3", isRelevant |-> FALSE, score |-> 9],
       [content |-> "c4", isRelevant |-> TRUE, score |-> 3],
       [content |-> "c5", isRelevant |-> TRUE, score |-> 0] >>

Documents ==
    { [documentId |-> "d1", title |-> "T", chunks |-> ChunksA,
       metadata |-> NoMetadata, containerTags |-> <<"all", "c1">>],
      [documentId |-> "d2", title |-> "U", chunks |-> ChunksB,
       metadata |-> [originalUrl |-> <<"http://u">>, url |-> <<>>],
       containerTags |-> <<"c1", "c2">>],
      [documentId |-> "d3", title |-> "V]", chunks |-> ChunksA,
       metadata |-> NoMetadata, containerTags |-> <<>>],
      [documentId |-> "d4", title |-> "", chunks |-> ChunksC,
       metadata |-> NoMetadata, containerTags |-> <<"all">>],
      [documentId |-> "d5", title |-> "W", chunks |-> ChunksC,
       metadata |-> [originalUrl |-> <<"">>, url |-> <<"http://w">>],
       containerTags |-> <<"a,b">>],
      [documentId |-> "d6", title |-> "X", chunks |-> ChunksB,
       metadata |-> [originalUrl |-> <<"http://x/(1)">>, url |-> <<>>],
       containerTags |-> <<"c2">>],
      [documentId |-> "d7", title |-> "Y", chunks |-> ChunksA,
       metadata |-> NoMetadata, containerTags |-> <<"Notes, 2024", "all">>] }

\* the document with the given id, as client.documents.get returns it
DocumentById(id) == CHOOSE d \in Documents : d.documentId = id

\* a hit: the fields of a document that a search result carries
HitOf(d) == [documentId |-> d.documentId, title |-> d.title,
             chunks |-> d.chunks, metadata |-> d.metadata]

\* the result lists of a search: up to MaxHits distinct documents, in the
\* retriever's order
RECURSIVE HitLists(_)
HitLists(n) ==
    IF n = 0 THEN {<<>>}
    ELSE HitLists(n - 1) \cup
         { Append(l, HitOf(d)) : l \in {x \in HitLists(n - 1) : Len(x) = n - 1},
                                 d \in Documents }

DistinctIds(l) == \A i, j \in 1..Len(l) : i # j => l[i].documentId # l[j].documentId

\* the prose a compliant answer may start with
Bodies == {"body", "See [1], [2]."}

\* the state of the page before any answer
PageIdle ==
    /\ text = ""
    /\ mainText = ""
    /\ sources = <<>>
    /\ segments = <<>>
    /\ nChunks = 0

\* a detail slot whose documents.get is still in flight
Pending == [settled |-> FALSE, doc |-> <<>>]

InitQA == PageIdle /\ QAIdle /\ OtherIdle

\* SearchReturnsNothing without the early return: the handler goes on with
\* an empty list, builds an empty context and lets the answer be generated
SearchReturnsNothingNoReturn ==
    /\ pc = "idle"
    /\ pc' = "streaming"
    /\ response' = TextStreamResponse
    /\ UNCHANGED <<searchResults, documentDetails, settleOrder, contextBlocks, context,
                   qaSources, sourcesList>>
    /\ UNCHANGED streamVars
    /\ UNCHANGED otherVars

\* route.ts 76-94: the search returns; with no result the handler answers at once
SearchReturnsNothing ==
    /\ pc = "idle"
    /\ pc' = "done"
    /\ response' = NoResultsResponse
    /\ UNCHANGED <<searchResults, documentDetails, settleOrder, contextBlocks, context,
                   qaSources, sourcesList>>
    /\ UNCHANGED streamVars
    /\ UNCHANGED otherVars

\* route.ts 76-98: the search returns hits and one documents.get per hit starts
SearchReturns(hits) ==
    /\ pc = "idle"
    /\ Len(hits) > 0
    /\ pc' = "details"
    /\ searchResults' = hits
    /\ documentDetails' = [i \in 1..Len(hits) |-> Pending]
    /\ settleOrder' = <<>>
    /\ UNCHANGED <<contextBlocks, context, qaSources, sourcesList, response>>
    /\ UNCHANGED streamVars
    /\ UNCHANGED otherVars

\* route.ts 99-101: the documents.get of the hit at position i resolves
DocumentGetResolves(i) ==
    /\ pc = "details"
    /\ ~documentDetails[i].settled
    /\ documentDetails' =
           [documentDetails EXCEPT ![i] =
               [settled |-> TRUE,
                doc |-> <<[containerTags |->
                             DocumentById(searchResults[i].documentId).containerTags]>>]]
    /\ settleOrder' = Append(settleOrder, i)
    /\ UNCHANGED <<pc, searchResults, contextBlocks, context, qaSources,
                   sourcesList, response>>
    /\ UNCHANGED streamVars
    /\ UNCHANGED otherVars

\* route.ts 102-104: the documents.get of the hit at position i fails
DocumentGetRejects(i) ==
    /\ pc = "details"
    /\ ~documentDetails[i].settled
    /\ documentDetails' = [documentDetails EXCEPT ![i] = [settled |-> TRUE, doc |-> <<>>]]
    /\ settleOrder' = Append(settleOrder, i)
    /\ UNCHANGED <<pc, searchResults, contextBlocks, context, qaSources,
                   sourcesList, response>>
    /\ UNCHANGED streamVars
    /\ UNCHANGED otherVars

\* DetailOf for an array filled in the order the promises settle
DetailOfCompletionOrder(details, order, index) == details[order[index]]

\* route.ts 97, 137: documentDetails[index]; Promise.all keeps the order of
\* the promises it was given, whatever order they settle in
DetailOf(details, order, index) == details[index]

\* route.ts 108-195: Promise.all has settled; the context, the sources and
\* sourcesList are built and the answer starts to stream
Assemble ==
    /\ pc = "details"
    /\ \A i \in 1..Len(documentDetails) : documentDetails[i].settled
    /\ contextBlocks' = [i \in 1..Len(searchResults) |-> ContextBlock(searchResults[i], i)]
    /\ context' = Join(contextBlocks', "\n\n---\n\n")
    /\ searchResults' = [i \in 1..Len(searchResults) |->
                            [searchResults[i] EXCEPT !.chunks = ChunksAfter(@)]]
    /\ qaSources' = [i \in 1..Len(searchResults) |->
                        SourceOf(searchResults'[i], i,
                                 DetailOf(documentDetails, settleOrder, i))]
    /\ sourcesList' = SourcesListOf(qaSources')
    /\ pc' = "streaming"
    /\ response' = TextStreamResponse
    /\ UNCHANGED <<documentDetails, settleOrder>>
    /\ UNCHANGED streamVars
    /\ UNCHANGED otherVars

\* route.ts 176-182, page.tsx 266-284: the model follows the instruction of
\* the system prompt: its answer is prose, the heading, a blank line and
\* sourcesList; the page renders it
CompliantAnswer(body) ==
    /\ pc = "streaming"
    /\ pc' = "done"
    /\ text' = body \o "\n\n" \o "## Sources\n\n" \o sourcesList
    /\ Render(text')
    /\ nChunks' = nChunks + 1
    /\ UNCHANGED <<searchResults, documentDetails, settleOrder, contextBlocks, context,
                   qaSources, sourcesList, response>>
    /\ UNCHANGED otherVars

NextQA ==
    \/ SearchReturnsNothing
    \/ \E hits \in {l \in HitLists(MaxHits) : DistinctIds(l)} : SearchReturns(hits)
    \/ \E i \in 1..Len(documentDetails) : DocumentGetResolves(i)
    \/ \E i \in 1..Len(documentDetails) : DocumentGetRejects(i)
    \/ Assemble
    \/ \E body \in Bodies : CompliantAnswer(body)

SpecQA == InitQA /\ [][NextQA]_vars

(***************************************************************************)
(* app/page.tsx: the Sources section of an answer streams in line by line  *)
(* after the prose and the heading.  The lines are ones a model can write: *)
(* well-formed ones, numbers with several digits and with leading zeros,   *)
(* links that are, hold or resemble the internal scheme, Collections       *)
(* groups with blanks and empty items, an unclosed and a lower-case group, *)
(* a line that is no source line, and two lines with the same link.        *)
(***************************************************************************)
MaxLines == 3

Preamble == "  Answer [1].\n\n## Sources\n\n"

SourceLines ==
    { "1. [T](doc://d)\n",
      "10. [U](http://u) (Collections: a, b)\n",
      "007. [V](doc://) (Collections: )\n",
      " 2.[W](xdoc://e)(Collections:  a ,, b c , )\n",
      "3. [X](doc://a/doc://b) (Collections: all)\n",
      "2. [Y](DOC://d) (Collections: a\n",
      "- not a source\n",
      "4. [Z](u) (collections: a)\n",
      "5. [Q](doc://d) (Collections: c)\n" }

\* the prose and the heading arrive
StreamPreamble ==
    /\ nChunks = 0
    /\ nChunks' = 1
    /\ text' = Preamble
    /\ Render(Preamble)
    /\ UNCHANGED qaVars
    /\ UNCHANGED otherVars

\* one more line of the section arrives
StreamLine(l) ==
    /\ nChunks >= 1
    /\ nChunks < MaxLines + 1
    /\ nChunks' = nChunks + 1
    /\ text' = text \o l
    /\ Render(text \o l)
    /\ UNCHANGED qaVars
    /\ UNCHANGED otherVars

NextSection ==
    \/ StreamPreamble
    \/ \E l \in SourceLines : StreamLine(l)

SpecSection == Init /\ [][NextSection]_vars

(***************************************************************************)
(* app/page.tsx: a message with footnotes streams in.  The pieces are the  *)
(* brackets, digits and prose a footnote marker is made of, and a whole    *)
(* marker.                                                                 *)
(***************************************************************************)
MaxPieces == 5

Pieces == { "[", "]", "1", "20", "a", "[3]" }

\* one more piece arrives
StreamPiece(c) ==
    /\ nChunks < MaxPieces
    /\ nChunks' = nChunks + 1
    /\ text' = text \o c
    /\ Render(text \o c)
    /\ UNCHANGED qaVars
    /\ UNCHANGED otherVars

NextFootnotes == \E c \in Pieces : StreamPiece(c)

SpecFootnotes == Init /\ [][NextFootnotes]_vars

(***************************************************************************)
(* The page while the Sources section arrives in fragments that cut the    *)
(* source lines anywhere: before the ')' of the link, inside the number,   *)
(* inside the collections group; a second heading may arrive too.          *)
(***************************************************************************)
MaxFragments == 4

Fragments ==
    { "1. [T](doc://d",
      ")",
      " (Collections: a",
      ", b)",
      "\n",
      "2",
      "2. [U](u)x",
      "## Sources\n" }

\* one more fragment of the section arrives
StreamFragment(c) ==
    /\ nChunks >= 1
    /\ nChunks < MaxFragments + 1
    /\ nChunks' = nChunks + 1
    /\ text' = text \o c
    /\ Render(text \o c)
    /\ UNCHANGED qaVars
    /\ UNCHANGED otherVars

NextFragments ==
    \/ StreamPreamble
    \/ \E c \in Fragments : StreamFragment(c)

SpecFragments == Init /\ [][NextFragments]_vars

(***************************************************************************)
(* lib/citation-parser.ts, one call step by step.  The loops of            *)
(* parseFootnoteCitations and parseTextWithFootnotes run one iteration per *)
(* step: regex.exec searches from regex.lastIndex and, on a match, leaves  *)
(* regex.lastIndex after it.  extractSourcesSection has no loop over the   *)
(* text and returns in one step.  The texts are made of pieces that leave  *)
(* brackets unmatched, headings half-written and source lines truncated.   *)
(***************************************************************************)
MaxScanPieces == 3

ScanPieces == { "[", "1]", "[2]", "## Sour", "## Sources\n", "1. [T](do" }

\* the texts of at most n pieces
RECURSIVE ScanTexts(_)
ScanTexts(n) ==
    IF n = 0 THEN {""}
    ELSE ScanTexts(n - 1) \cup {t \o c : t \in ScanTexts(n - 1), c \in ScanPieces}

ScanFunctions == {"extractSourcesSection", "parseFootnoteCitations", "parseTextWithFootnotes"}

notScanVars == <<streamVars, qaVars, requestVars, uploadVars, storeVars, viewerVars>>

\* fn(t) is called
ScanCall(fn, t) ==
    /\ scanPc = "idle"
    /\ scanPc' = "running"
    /\ scanFn' = fn
    /\ scanText' = t
    /\ regexLastIndex' = 1
    /\ scanLastIndex' = 1
    /\ scanOut' = <<>>
    /\ UNCHANGED notScanVars

\* citation-parser.ts 44-87: extractSourcesSection returns its result
ExtractReturns ==
    /\ scanPc = "running"
    /\ scanFn = "extractSourcesSection"
    /\ scanOut' = <<extractSourcesSection(scanText)>>
    /\ scanPc' = "returned"
    /\ UNCHANGED <<scanFn, scanText, regexLastIndex, scanLastIndex>>
    /\ UNCHANGED notScanVars

\* LastIndexAfter for a regex without the g flag: exec leaves lastIndex at 0
LastIndexAfterNoGlobalFlag(s, p) == 1

\* regex.lastIndex after exec matched at p, as a position: the end of the match
LastIndexAfter(s, p) == footnoteRegexAt(s, p)

\* citation-parser.ts 23-33: one evaluation of the loop condition of
\* parseFootnoteCitations, and the body or the return
CitationsStep ==
    /\ scanPc = "running"
    /\ scanFn = "parseFootnoteCitations"
    /\ LET p == footnoteRegexExec(scanText, regexLastIndex)
       IN  IF p # 0
           THEN /\ scanOut' = Append(scanOut, CitationAt(scanText, p))
                /\ regexLastIndex' = LastIndexAfter(scanText, p)
                /\ UNCHANGED scanPc
           ELSE /\ scanPc' = "returned"
                /\ regexLastIndex' = 1
                /\ UNCHANGED scanOut
    /\ UNCHANGED <<scanFn, scanText, scanLastIndex>>
    /\ UNCHANGED notScanVars

\* citation-parser.ts 105-138: one evaluation of the loop condition of
\* parseTextWithFootnotes, and the body or the trailing push and the return
SegmentsStep ==
    /\ scanPc = "running"
    /\ scanFn = "parseTextWithFootnotes"
    /\ LET p == footnoteRegexExec(scanText, regexLastIndex)
       IN  IF p # 0
           THEN /\ scanOut' =
                       scanOut
                       \o (IF p > scanLastIndex
                           THEN <<TextSegment(SubSeq(scanText, scanLastIndex, p - 1))>>
                           ELSE <<>>)
                       \o <<CitationSegment(CitationAt(scanText, p))>>
                /\ scanLastIndex' = p + Len(CitationAt(scanText, p).fullMatch)
                /\ regexLastIndex' = LastIndexAfter(scanText, p)
                /\ UNCHANGED scanPc
           ELSE /\ scanOut' =
                       scanOut
                       \o (IF scanLastIndex <= Len(scanText)
                           THEN <<TextSegment(From(scanText, scanLastIndex))>>
                           ELSE <<>>)
                /\ scanPc' = "returned"
                /\ regexLastIndex' = 1
                /\ UNCHANGED scanLastIndex
    /\ UNCHANGED <<scanFn, scanText>>
    /\ UNCHANGED notScanVars

\* the call in progress runs on
ScanRun == ExtractReturns \/ CitationsStep \/ SegmentsStep

NextScan ==
    \/ \E fn \in ScanFunctions : \E t \in ScanTexts(MaxScanPieces) : ScanCall(fn, t)
    \/ ExtractReturns
    \/ CitationsStep
    \/ SegmentsStep

\* The functions are synchronous, a call in progress is never suspended: weak
\* fairness of ScanRun, WF_vars(ScanRun), with ENABLED <<ScanRun>>_vars
\* written as the state predicate it is, a call in progress.
ScanFairness == []<>(scanPc # "running") \/ []<><<ScanRun>>_vars

SpecScan == Init /\ [][NextScan]_vars /\ ScanFairness

(***************************************************************************)
(* The server action uploadDocument.  A form field is absent (<<>>) or     *)
(* holds one value; the file is a File, named here by its name.  The       *)
(* action runs to its first await in one step; toFile and                  *)
(* client.memories.uploadFile then resolve or reject.                      *)
(***************************************************************************)
Files == { <<>>, <<"a.txt">>, <<"b.pdf">> }

ContainerTagsFields == { <<>>, <<"">>, <<"[c">>, <<"c">>, <<"[\"c\"]">>, <<"5">> }

MetadataFields == { <<>>, <<"">>, <<"{">>, <<"{}">>, <<"{\"k\":1}">> }

\* the texts among the field values that JSON.parse accepts; it throws a
\* SyntaxError on the others
JSONTexts == { "[\"c\"]", "5", "{}", "{\"k\":1}" }

JSONParseThrows(s) == s \notin JSONTexts

\* what uploadFile may reject with: an Error with a message, or another value
Rejections == { [isError |-> TRUE, message |-> "timeout"], [isError |-> FALSE, message |-> ""] }

DocumentIds == { "m1", "m2" }

NoUploadResponse == <<>>

UploadResponse(success, documentId, message, error, details) ==
    <<[success |-> success, documentId |-> documentId, message |-> message,
       error |-> error, details |-> details]>>

\* ValidationError without the check of the metadata field
ValidationErrorMetadataUnchecked(fd) ==
    IF ~Truthy(fd.file) THEN "No file provided"
    ELSE IF ~Truthy(fd.containerTags) THEN "No containerTags provided"
    ELSE IF JSONParseThrows(fd.containerTags[1])
         THEN "Invalid containerTags format - must be JSON array string"
    ELSE ""

\* part_004 60-82: the error of the first check that fails, "" when none does
ValidationError(fd) ==
    IF ~Truthy(fd.file) THEN "No file provided"
    ELSE IF ~Truthy(fd.containerTags) THEN "No containerTags provided"
    ELSE IF JSONParseThrows(fd.containerTags[1])
         THEN "Invalid containerTags format - must be JSON array string"
    ELSE IF Truthy(fd.metadata) /\ JSONParseThrows(fd.metadata[1])
         THEN "Invalid metadata format - must be JSON object string"
    ELSE ""

notUploadVars == <<streamVars, qaVars, requestVars, scanVars, storeVars, viewerVars>>

\* part_004 53-85: the action is called and runs to the await of toFile, or
\* returns the error of a check
UploadDocument(fd) ==
    /\ uploadPc = "idle"
    /\ formData' = fd
    /\ IF ValidationError(fd) # ""
       THEN /\ uploadPc' = "returned"
            /\ uploadResponse' = UploadResponse(FALSE, "", "", ValidationError(fd), "")
       ELSE /\ uploadPc' = "toFile"
            /\ uploadResponse' = NoUploadResponse
    /\ UNCHANGED uploadFileCalls
    /\ UNCHANGED notUploadVars

\* the message of the catch block, part_004 98-99
ErrorMessage(e) == IF e.isError THEN e.message ELSE "Unknown error occurred"

\* part_004 85-91: toFile resolves and client.memories.uploadFile is called
ToFileResolves ==
    /\ uploadPc = "toFile"
    /\ uploadPc' = "uploadFile"
    /\ uploadFileCalls' = Append(uploadFileCalls,
                                 [file |-> formData.file[1],
                                  containerTags |-> formData.containerTags[1],
                                  metadata |-> IF Truthy(formData.metadata)
                                               THEN formData.metadata[1] ELSE "{}",
                                  outcome |-> "pending"])
    /\ UNCHANGED <<formData, uploadResponse>>
    /\ UNCHANGED notUploadVars

\* part_004 85, 97-105: toFile rejects
ToFileRejects(e) ==
    /\ uploadPc = "toFile"
    /\ uploadPc' = "returned"
    /\ uploadResponse' = UploadResponse(FALSE, "", "", "Upload failed", ErrorMessage(e))
    /\ UNCHANGED <<formData, uploadFileCalls>>
    /\ UNCHANGED notUploadVars

\* part_004 87-96: the upload resolves with the stored document
UploadFileResolves(id) ==
    /\ uploadPc = "uploadFile"
    /\ uploadPc' = "returned"
    /\ uploadFileCalls' = [uploadFileCalls EXCEPT ![Len(uploadFileCalls)].outcome = id]
    /\ uploadResponse' = UploadResponse(TRUE, id, "Document uploaded successfully", "", "")
    /\ UNCHANGED formData
    /\ UNCHANGED notUploadVars

\* part_004 87, 97-105: the upload rejects
UploadFileRejects(e) ==
    /\ uploadPc = "uploadFile"
    /\ uploadPc' = "returned"
    /\ uploadFileCalls' = [uploadFileCalls EXCEPT ![Len(uploadFileCalls)].outcome = "rejected"]
    /\ uploadResponse' = UploadResponse(FALSE, "", "", "Upload failed", ErrorMessage(e))
    /\ UNCHANGED formData
    /\ UNCHANGED notUploadVars

NextUpload ==
    \/ \E f \in Files : \E t \in ContainerTagsFields : \E m \in MetadataFields :
          UploadDocument([file |-> f, containerTags |-> t, metadata |-> m])
    \/ ToFileResolves
    \/ \E e \in Rejections : ToFileRejects(e)
    \/ \E id \in DocumentIds : UploadFileResolves(id)
    \/ \E e \in Rejections : UploadFileRejects(e)

SpecUpload == Init /\ [][NextUpload]_vars

(***************************************************************************)
(* The collection routes, api/collections and api/collections/[name], and  *)
(* the store behind them.  A memory is [id, containerTags]; a memory       *)
(* without a containerTags array has the empty list.  client.memories.list *)
(* answers with at most `limit` memories, those carrying the tag asked for *)
(* when one is given.  Documents are uploaded before the requests arrive.  *)
(***************************************************************************)
MaxMemories == 3

ListLimit == 1000

Memories ==
    { [id |-> "m1", containerTags |-> <<"a">>],
      [id |-> "m2", containerTags |-> <<"b", "a">>],
      [id |-> "m3", containerTags |-> <<"B", "ab">>],
      [id |-> "m4", containerTags |-> <<>>] }

Carries(memory, tag) == \E i \in 1..Len(memory.containerTags) : memory.containerTags[i] = tag

\* client.memories.list({ containerTags: [tag], limit })
ListByTag(tag) ==
    LET keep(m) == Carries(m, tag) IN Slice(SelectSeq(memories, keep), ListLimit)

\* client.memories.list({ limit })
ListAll == Slice(memories, ListLimit)

\* the store after client.memories.delete(id)
Without(id) == LET keep(m) == m.id # id IN SelectSeq(memories, keep)

\* the UTF-16 code unit of a character of the tags
CodeUnit(c) ==
    CASE c = "B" -> 66 [] c = "a" -> 97 [] c = "b" -> 98 [] c = "c" -> 99 [] OTHER -> 0

\* s sorts before t in Array.prototype.sort without a comparator: the order of
\* the strings by code units
RECURSIVE StringLess(_, _)
StringLess(s, t) ==
    IF t = "" THEN FALSE
    ELSE IF s = "" THEN TRUE
    ELSE IF At(s, 1) # At(t, 1) THEN CodeUnit(At(s, 1)) < CodeUnit(At(t, 1))
    ELSE StringLess(From(s, 2), From(t, 2))

\* the sorted list with x put in its place
RECURSIVE InsertString(_, _)
InsertString(sorted, x) ==
    IF sorted = <<>> THEN <<x>>
    ELSE IF StringLess(x, Head(sorted)) THEN <<x>> \o sorted
    ELSE <<Head(sorted)>> \o InsertString(Tail(sorted), x)

\* Array.from(set).sort(): the strings of the set, each once, in ascending
\* order
RECURSIVE SortStrings(_)
SortStrings(set) ==
    IF set = {} THEN <<>>
    ELSE LET x == CHOOSE y \in set : TRUE
         IN  InsertString(SortStrings(set \ {x}), x)

\* part_001 23-29, 62-67: the tags of the memories listed
TagSet(list) == UNION { {list[i].containerTags[j] : j \in 1..Len(list[i].containerTags)} : i \in 1..Len(list) }

\* part_001 16-32: the collections GET answers with when the listing resolves
GET == SortStrings(TagSet(ListAll))

NoHandlerResponse == <<>>

HandlerResponse(status, success, count, message, error) ==
    <<[status |-> status, success |-> success, deletedCount |-> count,
       message |-> message, error |-> error]>>

ErrorResponse(status, error) == HandlerResponse(status, FALSE, 0, "", error)

notStoreVars == <<streamVars, qaVars, requestVars, scanVars, uploadVars, viewerVars>>

deleteVars == <<deletePc, collectionName, listed, attempted, deletedCount, deleteResponse>>

createVars == <<createBody, createResponse>>

\* a document is uploaded (part_004 87-91) before any request
MemoryAdded(m) ==
    /\ deletePc = "idle"
    /\ createResponse = NoHandlerResponse
    /\ Len(memories) < MaxMemories
    /\ \A i \in 1..Len(memories) : memories[i].id # m.id
    /\ memories' = Append(memories, m)
    /\ UNCHANGED <<deleteVars, createVars>>
    /\ UNCHANGED notStoreVars

\* the names of the route parameter; decodeURIComponent throws a URIError on
\* "%" and leaves the others, which hold no escape, as they are
RouteNames == { "", "a", "b", "B", "c", "%" }

DecodeThrows(name) == name = "%"

\* part_002 20-35: the request arrives; the listing is awaited
DELETE(name) ==
    /\ deletePc = "idle"
    /\ IF DecodeThrows(name)
       THEN /\ deletePc' = "returned"
            /\ deleteResponse' = ErrorResponse(500, "Failed to delete collection")
            /\ UNCHANGED collectionName
       ELSE IF name = ""
       THEN /\ deletePc' = "returned"
            /\ deleteResponse' = ErrorResponse(400, "Collection name is required")
            /\ collectionName' = name
       ELSE /\ deletePc' = "listing"
            /\ collectionName' = name
            /\ UNCHANGED deleteResponse
    /\ UNCHANGED <<memories, listed, attempted, deletedCount, createVars>>
    /\ UNCHANGED notStoreVars

\* part_002 49-53
DeletedResponse(count) ==
    HandlerResponse(200, TRUE, count,
                    "Collection \"" \o collectionName \o "\" deleted with "
                        \o NumberToString(count) \o " documents",
                    "")

\* NextToDelete for a loop that ends at the first deletion that fails
NextToDeleteStopAtFailure(list, done) ==
    IF Len(done) < Len(list) /\ (done = <<>> \/ done[Len(done)].deleted)
    THEN Len(done) + 1 ELSE 0

\* part_002 39-47: the position in the listing of the memory the loop turns
\* to after the attempts done, 0 when the loop is over
NextToDelete(list, done) == IF Len(done) < Len(list) THEN Len(done) + 1 ELSE 0

\* part_002 32-41, 49-53: the listing resolves; the first deletion is
\* awaited, or the loop is over at once
ListResolves ==
    /\ deletePc = "listing"
    /\ listed' = ListByTag(collectionName)
    /\ attempted' = <<>>
    /\ deletedCount' = 0
    /\ IF NextToDelete(listed', <<>>) # 0
       THEN deletePc' = "deleting" /\ UNCHANGED deleteResponse
       ELSE deletePc' = "returned" /\ deleteResponse' = DeletedResponse(0)
    /\ UNCHANGED <<memories, collectionName, createVars>>
    /\ UNCHANGED notStoreVars

\* part_002 32, 54-59: the listing rejects
ListRejects ==
    /\ deletePc = "listing"
    /\ deletePc' = "returned"
    /\ deleteResponse' = ErrorResponse(500, "Failed to delete collection")
    /\ UNCHANGED <<memories, collectionName, listed, attempted, deletedCount, createVars>>
    /\ UNCHANGED notStoreVars

\* part_002 39-53: client.memories.delete settles for the memory in turn,
\* resolved or rejected; the next deletion is awaited or the response returned
DeleteSettles(resolved) ==
    /\ deletePc = "deleting"
    /\ LET memory == listed[NextToDelete(listed, attempted)]
       IN  /\ attempted' = Append(attempted, [id |-> memory.id, deleted |-> resolved])
           /\ memories' = IF resolved THEN Without(memory.id) ELSE memories
           /\ deletedCount' = IF resolved THEN deletedCount + 1 ELSE deletedCount
    /\ IF NextToDelete(listed, attempted') # 0
       THEN deletePc' = "deleting" /\ UNCHANGED deleteResponse
       ELSE deletePc' = "returned" /\ deleteResponse' = DeletedResponse(deletedCount')
    /\ UNCHANGED <<collectionName, listed, createVars>>
    /\ UNCHANGED notStoreVars

\* the bodies of POST: JSON that does not parse, or an object whose name is
\* absent, a string, or a value that is no string
Bodies_POST ==
    { [json |-> FALSE, name |-> <<>>],
      [json |-> TRUE, name |-> <<>>],
      [json |-> TRUE, name |-> <<[string |-> FALSE, text |-> "5"]>>] }
    \cup { [json |-> TRUE, name |-> <<[string |-> TRUE, text |-> t]>>] :
             t \in {"", " \n", "a", " b ", "c", " ab", "B "} }

\* NameRefused without the test of the trimmed name
NameRefusedUntrimmed(body) ==
    \/ body.name = <<>>
    \/ ~body.name[1].string
    \/ body.name[1].text = ""

\* part_001 48: !name || typeof name !== 'string' || !name.trim()
NameRefused(body) ==
    \/ body.name = <<>>
    \/ ~body.name[1].string
    \/ body.name[1].text = ""
    \/ Trim(body.name[1].text) = ""

\* part_001 43-91: POST, with the listing resolving or rejecting
POST(body, listResolves) ==
    /\ createResponse = NoHandlerResponse
    /\ createBody' = <<body>>
    /\ createResponse' =
          IF ~body.json THEN ErrorResponse(500, "Failed to create collection")
          ELSE IF NameRefused(body) THEN ErrorResponse(400, "Collection name is required")
          ELSE IF ~listResolves THEN ErrorResponse(500, "Failed to create collection")
          ELSE IF Trim(body.name[1].text) \in TagSet(ListAll)
               THEN ErrorResponse(409, "A collection with this name already exists")
          ELSE HandlerResponse(200, TRUE, 0,
                               "Collection \"" \o Trim(body.name[1].text)
                                   \o "\" is ready to be created", "")
    /\ UNCHANGED <<memories, deleteVars>>
    /\ UNCHANGED notStoreVars

NextStore ==
    \/ \E m \in Memories : MemoryAdded(m)
    \/ \E name \in RouteNames : DELETE(name)
    \/ ListResolves
    \/ ListRejects
    \/ \E resolved \in BOOLEAN : DeleteSettles(resolved)
    \/ \E body \in Bodies_POST : \E listResolves \in BOOLEAN : POST(body, listResolves)

SpecStore == Init /\ [][NextStore]_vars

(***************************************************************************)
(* api/qa/route.ts, from the arrival of the request to the search.  A      *)
(* message is [role, parts, content]; parts and content are absent (<<>>)  *)
(* or hold one value, parts a list of [type, text].  The handler runs to   *)
(* the await of the search in one step, unless it throws or returns        *)
(* before; pc = "idle" is the state with the search in flight.             *)
(***************************************************************************)
MaxMessages == 2

MessageKinds ==
    { [role |-> "user", parts |-> <<<<[type |-> "text", text |-> "hi"]>>>>, content |-> <<>>],
      [role |-> "user", parts |-> <<<<[type |-> "text", text |-> " "], [type |-> "text", text |-> "\n"]>>>>, content |-> <<>>],
      [role |-> "user", parts |-> <<<<[type |-> "file", text |-> ""]>>>>, content |-> <<"q">>],
      [role |-> "user", parts |-> <<>>, content |-> <<"">>],
      [role |-> "system", parts |-> <<>>, content |-> <<" \n">>],
      [role |-> "data", parts |-> <<<<[type |-> "text", text |-> "hi"]>>>>, content |-> <<"q">>],
      [role |-> "assistant", parts |-> <<>>, content |-> <<"a">>],
      [role |-> "tool", parts |-> <<<<>>>>, content |-> <<>>] }

\* the lists of at most n messages
RECURSIVE MessageLists(_)
MessageLists(n) ==
    IF n = 0 THEN {<<>>}
    ELSE MessageLists(n - 1)
         \cup {Append(l, m) : l \in MessageLists(n - 1), m \in MessageKinds}

\* parts.filter(part => part.type === 'text').map(part => part.text).join('')
TextOfParts(parts) ==
    LET isText(part) == part.type = "text"
        texts == SelectSeq(parts, isText)
    IN  Join([i \in 1..Len(texts) |-> texts[i].text], "")

\* route.ts 43-56: the content of a formatted message
ContentOf(msg) ==
    LET fromParts == IF msg.parts # <<>> THEN TextOfParts(msg.parts[1]) ELSE ""
    IN  IF fromParts = "" /\ Truthy(msg.content) THEN msg.content[1] ELSE fromParts

AllowedRoles == {"system", "user", "assistant", "tool"}

\* route.ts 41-63: formattedMessages
FormattedMessages(msgs) ==
    LET keep(msg) ==
            /\ msg.content # ""
            /\ Len(Trim(msg.content)) > 0
            /\ msg.role \in AllowedRoles
    IN  SelectSeq([i \in 1..Len(msgs) |-> [role |-> msgs[i].role, content |-> ContentOf(msgs[i])]],
                  keep)

\* the TypeError of route.ts 35 leaves the handler: lastMessage is undefined
Thrown == [type |-> "thrown", answer |-> "TypeError", sources |-> <<>>]

\* route.ts 66-69
NoValidMessagesResponse ==
    [type |-> "400", answer |-> "No valid messages provided", sources |-> <<>>]

\* route.ts 196-201
FailedResponse == [type |-> "500", answer |-> "Failed to process question", sources |-> <<>>]

\* the handler before a request arrives
InitRequest ==
    /\ PageIdle
    /\ OtherIdle
    /\ pc = "listening"
    /\ searchResults = <<>>
    /\ documentDetails = <<>>
    /\ settleOrder = <<>>
    /\ contextBlocks = <<>>
    /\ context = ""
    /\ qaSources = <<>>
    /\ sourcesList = ""
    /\ response = NoResponse

\* route.ts 30-75: POST is called with the messages of the request
Request(msgs) ==
    /\ pc = "listening"
    /\ messages' = <<msgs>>
    /\ IF msgs = <<>>
       THEN pc' = "done" /\ response' = Thrown
       ELSE IF FormattedMessages(msgs) = <<>>
       THEN pc' = "done" /\ response' = NoValidMessagesResponse
       ELSE pc' = "idle" /\ UNCHANGED response
    /\ UNCHANGED <<searchResults, documentDetails, settleOrder, contextBlocks, context, qaSources,
                   sourcesList>>
    /\ UNCHANGED streamVars
    /\ UNCHANGED <<scanVars, uploadVars, storeVars, viewerVars>>

\* route.ts 74, 196-201: the search rejects
SearchRejects ==
    /\ pc = "idle"
    /\ pc' = "done"
    /\ response' = FailedResponse
    /\ UNCHANGED <<searchResults, documentDetails, settleOrder, contextBlocks, context, qaSources,
                   sourcesList>>
    /\ UNCHANGED streamVars
    /\ UNCHANGED otherVars

NextRequest ==
    \/ \E msgs \in MessageLists(MaxMessages) : Request(msgs)
    \/ SearchReturnsNothing
    \/ SearchRejects

SpecRequest == InitRequest /\ [][NextRequest]_vars

(***************************************************************************)
(* app/page.tsx: the document viewer of the chat.  ChatInterface holds     *)
(* viewerOpen and selectedDocId, DocumentViewerDialog holds doc and        *)
(* isLoading; a document is named by its id.  A handler, the render that   *)
(* follows it and the effect of the dialog run in one step.  The effect    *)
(* has no clean-up: a getDocument call in flight is never cancelled.  The  *)
(* dialog is modal, a source is clicked while it is closed.                *)
(***************************************************************************)
MaxFetches == 3

ViewerDocIds == { "d1", "d2" }

notViewerVars == <<streamVars, qaVars, requestVars, scanVars, uploadVars, storeVars>>

\* page.tsx 126-130: the effect calls getDocument(id)
Fetching(id) ==
    /\ isLoading' = TRUE
    /\ pendingGets' = pendingGets \cup {[id |-> id, call |-> fetches + 1]}
    /\ fetches' = fetches + 1

\* page.tsx 226-229, 126-130: a source is clicked; the effect runs with
\* isOpen and the new documentId
DocumentClick(docId) ==
    /\ ~viewerOpen
    /\ fetches < MaxFetches
    /\ selectedDocId' = <<docId>>
    /\ viewerOpen' = TRUE
    /\ Fetching(docId)
    /\ UNCHANGED doc
    /\ UNCHANGED notViewerVars

\* page.tsx 327-330, 144-145: the dialog is closed; the effect runs with
\* isOpen false
Close ==
    /\ viewerOpen
    /\ viewerOpen' = FALSE
    /\ selectedDocId' = <<>>
    /\ doc' = <<>>
    /\ UNCHANGED <<isLoading, pendingGets, fetches>>
    /\ UNCHANGED notViewerVars

\* page.tsx 325-332, 125-147: ChatInterface renders again (a chunk of the
\* answer arrived) and hands the dialog a new onClose: the effect runs again
ChatRenders ==
    /\ IF viewerOpen
       THEN /\ fetches < MaxFetches
            /\ Fetching(selectedDocId[1])
            /\ UNCHANGED doc
       ELSE /\ doc' = <<>>
            /\ UNCHANGED <<isLoading, pendingGets, fetches>>
    /\ UNCHANGED <<viewerOpen, selectedDocId>>
    /\ UNCHANGED notViewerVars

\* page.tsx 130-132, 141-143: a getDocument call resolves
GetDocumentResolves(call) ==
    /\ call \in pendingGets
    /\ pendingGets' = pendingGets \ {call}
    /\ doc' = <<call.id>>
    /\ isLoading' = FALSE
    /\ UNCHANGED <<viewerOpen, selectedDocId, fetches>>
    /\ UNCHANGED notViewerVars

\* page.tsx 133-143, 327-330, 144-145: a getDocument call rejects; the
\* toast is shown and onClose closes the dialog, whose effect then runs if
\* it was open
GetDocumentRejects(call) ==
    /\ call \in pendingGets
    /\ pendingGets' = pendingGets \ {call}
    /\ viewerOpen' = FALSE
    /\ selectedDocId' = <<>>
    /\ doc' = IF viewerOpen THEN <<>> ELSE doc
    /\ isLoading' = FALSE
    /\ UNCHANGED fetches
    /\ UNCHANGED notViewerVars

NextViewer ==
    \/ \E docId \in ViewerDocIds : DocumentClick(docId)
    \/ Close
    \/ ChatRenders
    \/ \E call \in pendingGets : GetDocumentResolves(call)
    \/ \E call \in pendingGets : GetDocumentRejects(call)

SpecViewer == Init /\ [][NextViewer]_vars

(***************************************************************************)
(* Vocabulary of the properties of the decoder.                            *)
(***************************************************************************)
\* the decoder found a Sources section: mainText is then a trimmed proper
\* prefix of text, and otherwise it is text itself
WasSplit == mainText # text

\* '##', optional white space and the word Sources (any case) start at p
HeadingWordAt(s, p, q) ==
    /\ StartsWithAt(s, p, "##")
    /\ q >= p + 2
    /\ \A i \in (p + 2)..(q - 1) : IsWs(At(s, i))
    /\ MatchCI(s, q, "sources")

\* a heading as the decoder accepts it starts at p: the word is followed by
\* white space that holds a line feed
HeadingAt(s, p) ==
    /\ StartsWithAt(s, p, "##")
    /\ \E q \in (p + 2)..Len(s) :
           /\ HeadingWordAt(s, p, q)
           /\ \E k \in (q + 7)..Len(s) :
                  /\ At(s, k) = "\n"
                  /\ \A i \in (q + 7)..k : IsWs(At(s, i))

HeadingPositions(s) == {p \in 1..Len(s) : HeadingAt(s, p)}

FirstHeading(s) == CHOOSE p \in HeadingPositions(s) : \A r \in HeadingPositions(s) : p <= r

LastHeading(s) == CHOOSE p \in HeadingPositions(s) : \A r \in HeadingPositions(s) : r <= p

\* no '##' followed by optional white space and the word Sources anywhere
HeadingFree(s) ==
    \A p \in 1..Len(s) :
        StartsWithAt(s, p, "##") => \A q \in (p + 2)..Len(s) : ~HeadingWordAt(s, p, q)

\* a level-2 heading line starts at p: exactly two '#' at the start of a line,
\* blanks, the word Sources (any case), and only blanks up to the end of the
\* line; the line may be the last of the text, with or without its line feed
LineHeadingAt(s, p) ==
    /\ StartsWithAt(s, p, "##")
    /\ p = 1 \/ At(s, p - 1) = "\n"
    /\ \E q \in (p + 2)..Len(s) :
           /\ HeadingWordAt(s, p, q)
           /\ \A i \in (p + 2)..(q - 1) : At(s, i) \in {" ", "\t"}
           /\ LET e == IF IndexOfFrom(s, "\n", q + 7) = 0 THEN Len(s) + 1
                       ELSE IndexOfFrom(s, "\n", q + 7)
              IN  \A i \in (q + 7)..(e - 1) : At(s, i) \in {" ", "\t"}

\* the position after the word Sources of the heading that starts at p
AfterWord(s, p) == SkipWs(s, p + 2) + 7

\* the lines of region that match the citation-line grammar, decoded, in order
DecodedLines(region) ==
    LET matching == SelectSeq(Split(region, "\n"), LAMBDA l : numberedMatch(l).matched)
    IN  [i \in 1..Len(matching) |-> SourceItemOf(numberedMatch(matching[i]))]

\* the contents of a list of segments, concatenated
RECURSIVE ConcatContents(_)
ConcatContents(segs) ==
    IF Len(segs) = 0 THEN "" ELSE Head(segs).content \o ConcatContents(Tail(segs))

(***************************************************************************)
(* C1: concatenating the content fields of the segments that               *)
(* parseTextWithFootnotes returns, in order, reproduces the input.         *)
(***************************************************************************)
C1_SegmentationRoundTrip == ConcatContents(segments) = text

\* a text with a text segment before a citation, a citation and text after it
C1_Witness ==
    /\ Len(segments) >= 3
    /\ \E i \in 2..(Len(segments) - 1) :
           /\ segments[i].type = "citation"
           /\ segments[i - 1].type = "text"
           /\ segments[Len(segments)].type = "text"

(***************************************************************************)
(* C4: decoding the mainText of a decoded text again returns that mainText *)
(* unchanged and no sources.                                               *)
(***************************************************************************)
C4_IdempotentDecoding ==
    extractSourcesSection(mainText) = [mainText |-> mainText, sources |-> <<>>]

\* a text that was split, with prose left and sources found
C4_Witness == WasSplit /\ Len(mainText) > 0 /\ Len(sources) > 0

(***************************************************************************)
(* C6, as amended: with more than one Sources heading in the text, the     *)
(* split is at the first one: mainText is the trimmed text before the      *)
(* first heading, and sources are decoded from all the lines after it,     *)
(* those after the later headings included.                                *)
(***************************************************************************)
C6_SplitsAtFirstHeading ==
    Cardinality(HeadingPositions(text)) >= 2 =>
        /\ mainText = Trim(Before(text, FirstHeading(text)))
        /\ sources = DecodedLines(From(text, FirstHeading(text) + 2))

\* two headings, a source line between them and one after the second
C6_Witness ==
    /\ Cardinality(HeadingPositions(text)) >= 2
    /\ Len(sources) >= 2
    /\ Len(DecodedLines(From(text, LastHeading(text) + 2))) = 1

\* C6 as stated: the split is at the last heading.  Only texts whose headings
\* are all level-2 heading lines are considered.
C6_SplitsAtLastHeading ==
    (/\ Cardinality(HeadingPositions(text)) >= 2
     /\ \A p \in HeadingPositions(text) : LineHeadingAt(text, p)) =>
        /\ mainText = Trim(Before(text, LastHeading(text)))
        /\ sources = DecodedLines(From(text, LastHeading(text) + 2))

(***************************************************************************)
(* C7: a text with no Sources heading, a truncated one included, is        *)
(* returned unchanged as mainText, with no sources.                        *)
(***************************************************************************)
C7_NoHeadingUnchanged == HeadingFree(text) => mainText = text /\ sources = <<>>

\* a text that starts with white space and ends in a truncated heading
C7_Witness ==
    /\ HeadingFree(text)
    /\ IsWs(At(text, 1))
    /\ Len(text) >= 8
    /\ From(text, Len(text) - 6) = "## Sour"

(***************************************************************************)
(* C8, as amended: the heading is recognised wherever '##' is followed by  *)
(* optional white space, the word Sources in any letter case and white     *)
(* space that holds a line break; it need not start a line.                *)
(***************************************************************************)
C8_HeadingGrammar == WasSplit <=> HeadingPositions(text) # {}

\* a split at '## Sources' in the middle of a line
C8_Witness ==
    /\ WasSplit
    /\ FirstHeading(text) > 1
    /\ At(text, FirstHeading(text) - 1) \notin {"\n", ""}

\* C8 as stated: the text is split only at a level-2 heading line
C8_OnlyLineHeadings ==
    WasSplit =>
        \E p \in 1..Len(text) :
            /\ LineHeadingAt(text, p)
            /\ mainText = Trim(Before(text, p))

(***************************************************************************)
(* C9, as amended: when the text ends with the heading and white space     *)
(* that holds a line break, mainText is the trimmed text before the        *)
(* heading and there are no sources; when the text ends with the heading   *)
(* and no line break follows the word, the heading is not recognised and   *)
(* mainText is the whole text.  (The heading is the first of the text.)    *)
(***************************************************************************)
\* the text ends with the heading that starts at p, the first of the text:
\* only white space follows the word
EndsWithHeading(s, p) ==
    /\ StartsWithAt(s, p, "##")
    /\ \E q \in (p + 2)..Len(s) : HeadingWordAt(s, p, q)
    /\ \A r \in 1..(p - 1) :
           StartsWithAt(s, r, "##") => \A q \in (r + 2)..Len(s) : ~HeadingWordAt(s, r, q)
    /\ \A i \in AfterWord(s, p)..Len(s) : IsWs(At(s, i))

\* whether s holds a line feed at or after position i
HasNewlineFrom(s, i) == IndexOfFrom(s, "\n", i) # 0

C9_HeadingAtEnd ==
    \A p \in 1..Len(text) :
        EndsWithHeading(text, p) =>
            IF HasNewlineFrom(text, AfterWord(text, p))
            THEN mainText = Trim(Before(text, p)) /\ sources = <<>>
            ELSE mainText = text /\ sources = <<>>

\* prose, then the heading and its line break, and nothing else
C9_Witness ==
    \E p \in 2..Len(text) :
        /\ LineHeadingAt(text, p)
        /\ EndsWithHeading(text, p)
        /\ HasNewlineFrom(text, AfterWord(text, p))
        /\ Len(mainText) > 0
        /\ WasSplit

\* C9 as stated: the heading line ends the text, with or without a line break
C9_HeadingAtEndAlways ==
    \A p \in 1..Len(text) :
        (LineHeadingAt(text, p) /\ EndsWithHeading(text, p)) =>
            mainText = Trim(Before(text, p)) /\ sources = <<>>

(***************************************************************************)
(* C10: the sources decoded are exactly the lines after the heading that   *)
(* match the citation-line grammar, in line order; a line that does not    *)
(* match is dropped and the lines after it are still decoded.              *)
(***************************************************************************)
C10_MatchingLinesDecoded ==
    WasSplit => sources = DecodedLines(From(text, FirstHeading(text) + 2))

\* after the heading, a non-blank line that does not match, then one that does
C10_Witness ==
    /\ WasSplit
    /\ Len(sources) > 0
    /\ LET ls == Split(From(text, AfterWord(text, FirstHeading(text))), "\n")
       IN  \E i \in 1..Len(ls) : \E j \in (i + 1)..Len(ls) :
               /\ Len(Trim(ls[i])) > 0
               /\ ~numberedMatch(ls[i]).matched
               /\ numberedMatch(ls[j]).matched

(***************************************************************************)
(* Vocabulary of the properties of the encoder and the assembler.          *)
(***************************************************************************)
\* whether the one-character string c occurs in s
Contains(s, c) == IndexOfFrom(s, c, 1) # 0

\* the link the encoder writes for a source
LinkOf(src) == IF Truthy(src.url) THEN src.url[1] ELSE "doc://" \o src.id

\* the descriptor of a source: number, title and link as encoded, the
\* internal-link flag and the document id as the link's form gives them
DescriptorOf(src) ==
    LET link == LinkOf(src)
        internal == Len(link) >= 6 /\ SubSeq(link, 1, 6) = "doc://"
    IN  [number |-> src.citationNumber,
         title |-> src.title,
         url |-> link,
         isDocumentLink |-> internal,
         documentId |-> IF internal THEN <<From(link, 7)>> ELSE <<>>,
         collections |-> src.collections]

\* titles and links are not empty and hold no ']' and no ')'
TitlesAndLinksPlain(srcs) ==
    \A i \in 1..Len(srcs) :
        /\ Len(srcs[i].title) > 0
        /\ Len(LinkOf(srcs[i])) > 0
        /\ ~Contains(srcs[i].title, "]") /\ ~Contains(srcs[i].title, ")")
        /\ ~Contains(LinkOf(srcs[i]), "]") /\ ~Contains(LinkOf(srcs[i]), ")")

\* no title, link or collection name holds a line break, and every collection
\* name is not empty, has no white space around it and holds no ',' and no ')'
NoLineBreaksAndCollectionsPlain(srcs) ==
    \A i \in 1..Len(srcs) :
        /\ ~Contains(srcs[i].title, "\n")
        /\ ~Contains(LinkOf(srcs[i]), "\n")
        /\ \A k \in 1..Len(srcs[i].collections) :
               LET c == srcs[i].collections[k]
               IN  /\ Len(c) > 0
                   /\ ~IsWs(At(c, 1)) /\ ~IsWs(At(c, Len(c)))
                   /\ ~Contains(c, ",") /\ ~Contains(c, ")") /\ ~Contains(c, "\n")

\* the sources the page decoded, as the encoder takes them
AsEncoderInput(items) ==
    [i \in 1..Len(items) |->
        [id |-> IF Len(items[i].documentId) = 1 THEN items[i].documentId[1] ELSE "",
         title |-> items[i].title,
         url |-> <<items[i].url>>,
         collections |-> items[i].collections,
         citationNumber |-> items[i].number]]

\* the answer of a request was decoded by the page
Answered == pc = "done" /\ response = TextStreamResponse

(***************************************************************************)
(* C2, as amended: for a descriptor list whose titles and links are not    *)
(* empty and hold no ']' or ')', whose titles, links and collection names  *)
(* hold no line break, and whose collection names are not empty, have no   *)
(* white space around them and hold no ',' or ')', decoding a body (with   *)
(* no Sources heading), the heading, a blank line and the encoded list     *)
(* returns the descriptor list.                                            *)
(***************************************************************************)
C2_EncodeDecodeRoundTrip ==
    (Answered /\ TitlesAndLinksPlain(qaSources) /\ NoLineBreaksAndCollectionsPlain(qaSources)) =>
        sources = [i \in 1..Len(qaSources) |-> DescriptorOf(qaSources[i])]

\* two sources decoded, one an internal link, one external with two collections
C2_Witness ==
    /\ Answered
    /\ TitlesAndLinksPlain(qaSources) /\ NoLineBreaksAndCollectionsPlain(qaSources)
    /\ Len(sources) = 2
    /\ \E i, j \in 1..2 :
           /\ sources[i].isDocumentLink /\ Len(sources[i].collections) = 1
           /\ ~sources[j].isDocumentLink /\ Len(sources[j].collections) = 2

\* C2 as stated: only the titles and the links are restricted
C2_RoundTripTitlesAndLinksOnly ==
    (Answered /\ TitlesAndLinksPlain(qaSources)) =>
        sources = [i \in 1..Len(qaSources) |-> DescriptorOf(qaSources[i])]

(***************************************************************************)
(* C3, as amended: under the conditions of C2 as amended, encoding the     *)
(* sources decoded from a compliant answer reproduces sourcesList byte for *)
(* byte.                                                                   *)
(***************************************************************************)
C3_DecodeEncodeRoundTrip ==
    (Answered /\ TitlesAndLinksPlain(qaSources) /\ NoLineBreaksAndCollectionsPlain(qaSources)) =>
        SourcesListOf(AsEncoderInput(sources)) = sourcesList

\* a list of two lines, one with a Collections group, was decoded
C3_Witness ==
    /\ Answered
    /\ TitlesAndLinksPlain(qaSources) /\ NoLineBreaksAndCollectionsPlain(qaSources)
    /\ Len(sources) = 2
    /\ Contains(sourcesList, "\n")
    /\ \E i \in 1..2 : Len(sources[i].collections) > 0

\* C3 as stated, read with the restriction C2 states on titles and links (a
\* list whose title holds ']' is not well formed)
C3_RoundTripTitlesAndLinksOnly ==
    (Answered /\ TitlesAndLinksPlain(qaSources)) =>
        SourcesListOf(AsEncoderInput(sources)) = sourcesList

(***************************************************************************)
(* C5: for n hits the handler builds n sources numbered 1..n in the order  *)
(* of the hits, the context block of the hit at position i is labelled     *)
(* with i, the hit's title and its documentId, and this stays so until the *)
(* request is done.                                                        *)
(***************************************************************************)
C5_NumberingFidelity ==
    pc \in {"streaming", "done"} /\ response = TextStreamResponse =>
        /\ Len(searchResults) > 0
        /\ Len(qaSources) = Len(searchResults)
        /\ Len(contextBlocks) = Len(searchResults)
        /\ \A i \in 1..Len(searchResults) :
               /\ qaSources[i].citationNumber = i
               /\ qaSources[i].id = searchResults[i].documentId
               /\ qaSources[i].title = searchResults[i].title
               /\ StartsWithAt(contextBlocks[i], 1,
                      "[Document " \o NumberToString(i) \o ": \"" \o searchResults[i].title
                      \o "\" (ID: " \o searchResults[i].documentId \o ")]\n")

\* a request with two hits is done
C5_Witness == Answered /\ Len(qaSources) = 2 /\ Len(contextBlocks) = 2

(***************************************************************************)
(* Vocabulary of the properties of the decoded source lines.               *)
(***************************************************************************)
\* the lines of region that match the citation-line grammar, in order
MatchingLines(region) ==
    SelectSeq(Split(region, "\n"), LAMBDA l : numberedMatch(l).matched)

\* the lines after the heading of the text that match the grammar
SectionLines == MatchingLines(From(text, FirstHeading(text) + 2))

\* the integer written at the start of a matching line
LeadingInteger(line) ==
    LET a == SkipWs(line, 1)
    IN  ParseInt(SubSeq(line, a, SkipDigits(line, a) - 1))

(***************************************************************************)
(* C11: the sources decoded are one per matching line, in line order, and  *)
(* the number of each is the integer written at the start of its line:     *)
(* nothing is renumbered, sorted or dropped as a duplicate.                *)
(***************************************************************************)
C11_NumbersAsWritten ==
    WasSplit =>
        LET lines == SectionLines
        IN  /\ Len(sources) = Len(lines)
            /\ \A i \in 1..Len(sources) : sources[i].number = LeadingInteger(lines[i])

\* a section that starts at 10, goes down and repeats a number
C11_Witness ==
    /\ Len(sources) = 3
    /\ sources[1].number = 10
    /\ sources[2].number < sources[1].number
    /\ sources[3].number = sources[2].number

(***************************************************************************)
(* C12, as amended: when a Sources heading is found, mainText is the text  *)
(* before the heading with the white space at both its ends removed: it    *)
(* neither starts nor ends with white space, and the text before the       *)
(* heading is white space, mainText, white space.                          *)
(***************************************************************************)
C12_TrimmedBothEnds ==
    WasSplit =>
        LET before == Before(text, FirstHeading(text))
        IN  /\ ~IsWs(At(mainText, 1))
            /\ ~IsWs(At(mainText, Len(mainText)))
            /\ \E a \in 0..Len(before) :
                   /\ \A i \in 1..a : IsWs(At(before, i))
                   /\ StartsWithAt(before, a + 1, mainText)
                   /\ \A i \in (a + Len(mainText) + 1)..Len(before) : IsWs(At(before, i))

\* white space, prose, white space and the heading
C12_Witness ==
    /\ WasSplit
    /\ Len(mainText) > 0
    /\ IsWs(At(text, 1))
    /\ IsWs(At(text, FirstHeading(text) - 1))

\* C12 as stated: only the white space at the end is removed
C12_LeadingWhitespaceKept ==
    WasSplit => mainText = TrimEnd(Before(text, FirstHeading(text)))

(***************************************************************************)
(* Vocabulary of the properties of the context blocks.                     *)
(***************************************************************************)
\* the handler has built the context and the sources of a request
Assembled == pc \in {"streaming", "done"} /\ response = TextStreamResponse

\* the chunks of the hit at position i as the retriever returned them
RetrievedChunks(i) == DocumentById(searchResults[i].documentId).chunks

\* the positions of the chunks marked relevant, ascending
RECURSIVE RelevantPositions(_, _)
RelevantPositions(chunks, i) ==
    IF i > Len(chunks) THEN <<>>
    ELSE (IF chunks[i].isRelevant THEN <<i>> ELSE <<>>) \o RelevantPositions(chunks, i + 1)

\* the number of chunks that come before the chunk at position i when the
\* chunks are ordered by score descending, ties in retrieval order
ScoreRank(chunks, i) ==
    Cardinality({j \in 1..Len(chunks) :
                    \/ chunks[j].score > chunks[i].score
                    \/ chunks[j].score = chunks[i].score /\ j < i})

\* the positions of all chunks by score descending, ties in retrieval order
ScoreOrder(chunks) ==
    [r \in 1..Len(chunks) |-> CHOOSE i \in 1..Len(chunks) : ScoreRank(chunks, i) = r - 1]

\* the positions of the chunks the claim selects, in its order
ClaimedPositions(chunks) ==
    LET chosen == IF \E i \in 1..Len(chunks) : chunks[i].isRelevant
                  THEN RelevantPositions(chunks, 1)
                  ELSE ScoreOrder(chunks)
    IN  IF Len(chosen) > 3 THEN SubSeq(chosen, 1, 3) ELSE chosen

\* the label line of the block of the hit at position i
BlockLabel(i) ==
    "[Document " \o NumberToString(i) \o ": \"" \o searchResults[i].title
    \o "\" (ID: " \o searchResults[i].documentId \o ")]\n"

(***************************************************************************)
(* C13: the block of each hit holds, after its label, the contents of the  *)
(* chunks marked relevant in retrieval order when there is one, and        *)
(* otherwise of all chunks by score descending with ties in retrieval      *)
(* order; at most the first 3, joined by a blank line.                     *)
(***************************************************************************)
C13_ChunkSelection ==
    Assembled =>
        \A i \in 1..Len(searchResults) :
            LET chunks == RetrievedChunks(i)
                pos == ClaimedPositions(chunks)
            IN  contextBlocks[i] =
                    BlockLabel(i) \o Join([k \in 1..Len(pos) |-> chunks[pos[k]].content], "\n\n")

\* a hit with no relevant chunk and a tie of scores, and a hit with more
\* than 3 relevant chunks whose scores are not in order
C13_Witness ==
    /\ Assembled
    /\ \E i, j \in 1..Len(searchResults) :
           /\ RetrievedChunks(i) = ChunksB
           /\ RetrievedChunks(j) = ChunksC

(***************************************************************************)
(* C14, as amended: when the search returns no hit the handler builds no   *)
(* context and no source, and itself answers with the message that no      *)
(* relevant information was found and an empty source list; no answer is   *)
(* generated.                                                              *)
(***************************************************************************)
C14_EmptyRetrievalAnswered ==
    (pc = "done" /\ Len(searchResults) = 0) =>
        /\ context = ""
        /\ qaSources = <<>>
        /\ sourcesList = ""
        /\ response.answer = NoResultsAnswer
        /\ response.sources = <<>>
        /\ text = ""

\* a request whose search returned nothing is done
C14_Witness ==
    /\ pc = "done"
    /\ Len(searchResults) = 0
    /\ response = NoResultsResponse

\* C14 as stated: the context and the sources are empty and the handler
\* writes no message of its own
C14_NoApology ==
    (pc = "done" /\ Len(searchResults) = 0) =>
        /\ context = ""
        /\ qaSources = <<>>
        /\ response.answer = ""

(***************************************************************************)
(* C15: building the context and the sources leaves the input as it was:   *)
(* the chunks of every hit are the chunks the retriever returned, in the   *)
(* same order, also for a hit with no chunk marked relevant.               *)
(***************************************************************************)
C15_InputUnchanged ==
    Assembled =>
        \A i \in 1..Len(searchResults) : searchResults[i].chunks = RetrievedChunks(i)

(***************************************************************************)
(* Vocabulary of the properties of the encoded source list.                *)
(***************************************************************************)
\* the names c1, c2, ... written as 'c1, c2, ...'
RECURSIVE CommaSpaceList(_)
CommaSpaceList(names) ==
    IF Len(names) = 0 THEN ""
    ELSE IF Len(names) = 1 THEN names[1]
    ELSE CommaSpaceList(SubSeq(names, 1, Len(names) - 1)) \o ", " \o names[Len(names)]

\* '{number}. [{title}]({link})' for a source
EntryOf(src) ==
    NumberToString(src.citationNumber) \o ". [" \o src.title \o "](" \o LinkOf(src) \o ")"

\* the lines of the encoded source list
EncodedLines == Split(sourcesList, "\n")

(***************************************************************************)
(* C16: sourcesList has one line per source, in number order, joined by    *)
(* single line feeds; the line of a source is '{number}. [{title}]({link})'*)
(* and is followed by ' (Collections: c1, c2, ...)' exactly when the       *)
(* source has a collection.                                                *)
(***************************************************************************)
C16_EncodedList ==
    Assembled =>
        /\ Len(EncodedLines) = Len(qaSources)
        /\ \A i \in 1..Len(qaSources) :
               /\ qaSources[i].citationNumber = i
               /\ EncodedLines[i] =
                      IF Len(qaSources[i].collections) = 0
                      THEN EntryOf(qaSources[i])
                      ELSE EntryOf(qaSources[i]) \o " (Collections: "
                           \o CommaSpaceList(qaSources[i].collections) \o ")"

\* a list of two lines: a source with two collections and one with none
C16_Witness ==
    /\ Assembled
    /\ Len(qaSources) = 2
    /\ Len(qaSources[1].collections) = 2
    /\ Len(qaSources[2].collections) = 0
    /\ Len(EncodedLines) = 2

(***************************************************************************)
(* C17, as amended: the link encoded for a hit is the hit's                *)
(* metadata.originalUrl when that is present and not empty, else its       *)
(* metadata.url when that is present and not empty, and otherwise          *)
(* 'doc://' followed by the documentId; the collections of a source are    *)
(* the tags of its document without the tag 'all'.                         *)
(***************************************************************************)
\* whether an optional string is present and not empty
PresentNonEmpty(opt) == opt # <<>> /\ opt # <<"">>

\* the tags documents.get returned for the hit at position i, none when it failed
TagsOf(i) ==
    IF documentDetails[i].doc = <<>> THEN <<>>
    ELSE DocumentById(searchResults[i].documentId).containerTags

\* the line of the hit at position i starts with its number, its title and link
EncodesLink(i, link) ==
    StartsWithAt(EncodedLines[i], 1,
        NumberToString(i) \o ". [" \o searchResults[i].title \o "](" \o link \o ")")

C17_LinkAndCollections ==
    Assembled =>
        \A i \in 1..Len(searchResults) :
            LET hit == searchResults[i]
            IN  /\ EncodesLink(i,
                       IF PresentNonEmpty(hit.metadata.originalUrl) THEN hit.metadata.originalUrl[1]
                       ELSE IF PresentNonEmpty(hit.metadata.url) THEN hit.metadata.url[1]
                       ELSE "doc://" \o hit.documentId)
                /\ \A k \in 1..Len(qaSources[i].collections) :
                       qaSources[i].collections[k] # "all"
                /\ qaSources[i].collections = SelectSeq(TagsOf(i), LAMBDA t : t # "all")

\* a hit with an empty originalUrl and a url, and a hit with no URL whose
\* document carries the tag 'all' and another tag
C17_Witness ==
    /\ Assembled
    /\ \E i, j \in 1..Len(searchResults) :
           /\ searchResults[i].metadata.originalUrl = <<"">>
           /\ PresentNonEmpty(searchResults[i].metadata.url)
           /\ searchResults[j].metadata = NoMetadata
           /\ Len(TagsOf(j)) = 2
           /\ \E k \in 1..2 : TagsOf(j)[k] = "all"
           /\ Len(qaSources[j].collections) = 1

\* C17 as stated: the link is metadata.originalUrl or else the internal link
C17_OriginalUrlOrInternal ==
    Assembled =>
        \A i \in 1..Len(searchResults) :
            LET hit == searchResults[i]
            IN  /\ EncodesLink(i,
                       IF PresentNonEmpty(hit.metadata.originalUrl) THEN hit.metadata.originalUrl[1]
                       ELSE "doc://" \o hit.documentId)
                /\ \A k \in 1..Len(qaSources[i].collections) :
                       qaSources[i].collections[k] # "all"

(***************************************************************************)
(* C18: in every decoded source isDocumentLink is true exactly when url    *)
(* starts with 'doc://'; documentId is present exactly when isDocumentLink *)
(* is true, and is then url without that leading prefix; two sources with  *)
(* the same url have the same flag and documentId.                         *)
(***************************************************************************)
C18_DocumentLinkFlag ==
    \A i \in 1..Len(sources) :
        LET src == sources[i]
        IN  /\ src.isDocumentLink <=>
                   (Len(src.url) >= 6 /\ SubSeq(src.url, 1, 6) = "doc://")
            /\ Len(src.documentId) = 1 <=> src.isDocumentLink
            /\ src.isDocumentLink => "doc://" \o src.documentId[1] = src.url
            /\ \A j \in 1..Len(sources) :
                   sources[j].url = src.url =>
                       /\ sources[j].isDocumentLink = src.isDocumentLink
                       /\ sources[j].documentId = src.documentId

\* a link that holds the prefix but does not start with it, and two sources
\* with the same internal link and different titles and collections
C18_Witness ==
    /\ Len(sources) = 3
    /\ \E i, j, k \in 1..3 :
           /\ sources[i].url = "xdoc://e" /\ ~sources[i].isDocumentLink
           /\ j # k
           /\ sources[j].url = sources[k].url
           /\ sources[j].isDocumentLink
           /\ sources[j].title # sources[k].title
           /\ sources[j].collections # sources[k].collections

\* the prefix alone, and a link that holds the prefix twice
C18_WitnessPrefixForms ==
    /\ \E i \in 1..Len(sources) : sources[i].url = "doc://" /\ sources[i].documentId = <<"">>
    /\ \E i \in 1..Len(sources) : sources[i].documentId = <<"a/doc://b">>

(***************************************************************************)
(* C19: the collections of a decoded source are the items of the captured  *)
(* '(Collections: ...)' list between its commas, each without the white    *)
(* space around it, the empty ones left out; a line with no Collections    *)
(* group gives the empty list.                                             *)
(***************************************************************************)
\* the items of s between its commas, read character by character from
\* position i with the item cur begun
RECURSIVE ItemsFrom(_, _, _)
ItemsFrom(s, i, cur) ==
    IF i > Len(s) THEN <<cur>>
    ELSE IF At(s, i) = "," THEN <<cur>> \o ItemsFrom(s, i + 1, "")
    ELSE ItemsFrom(s, i + 1, cur \o At(s, i))

\* the items of a captured list as the claim gives them
ClaimedCollections(captured) ==
    LET items == ItemsFrom(captured, 1, "")
        trimmed == [k \in 1..Len(items) |-> Trim(items[k])]
    IN  SelectSeq(trimmed, LAMBDA c : c # "")

\* whether the line holds the opening of a Collections group
HasCollectionsGroup(line) ==
    \E p \in 1..Len(line) : StartsWithAt(line, p, "(Collections:")

C19_CollectionsSplit ==
    WasSplit =>
        LET lines == SectionLines
        IN  \A i \in 1..Len(sources) :
            LET line == lines[i]
                captured == numberedMatch(line).g4
            IN  /\ Len(captured) = 1 => sources[i].collections = ClaimedCollections(captured[1])
                /\ Len(captured) = 0 => sources[i].collections = <<>>
                /\ ~HasCollectionsGroup(line) => sources[i].collections = <<>>
                /\ \A k \in 1..Len(sources[i].collections) :
                       LET c == sources[i].collections[k]
                       IN  c # "" /\ ~IsWs(At(c, 1)) /\ ~IsWs(At(c, Len(c))) /\ ~Contains(c, ",")

\* a list with blanks and empty items, a list of white space only, and a line
\* with no group
C19_Witness ==
    /\ Len(sources) = 3
    /\ \E i, j, k \in 1..3 :
           /\ numberedMatch(SectionLines[i]).g4 = <<"a ,, b c , ">>
           /\ sources[i].collections = <<"a", "b c">>
           /\ numberedMatch(SectionLines[j]).g4 = <<" ">>
           /\ sources[j].collections = <<>>
           /\ ~HasCollectionsGroup(SectionLines[k])
           /\ sources[k].collections = <<>>

(***************************************************************************)
(* Vocabulary of the properties of the segments.                           *)
(***************************************************************************)
\* a footnote marker, '[', one or more digits, ']', occupies p..e of s
MarkerAt(s, p, e) ==
    /\ At(s, p) = "["
    /\ e > p + 1
    /\ e <= Len(s)
    /\ \A i \in (p + 1)..(e - 1) : IsDigit(At(s, i))
    /\ At(s, e) = "]"

\* the positions of s where a marker starts
MarkerStarts(s) == {p \in 1..Len(s) : \E e \in (p + 2)..Len(s) : MarkerAt(s, p, e)}

\* the decimal value of the digits of s from position i, acc being the value
\* of those before
RECURSIVE DecimalFrom(_, _, _)
DecimalFrom(s, i, acc) ==
    IF i > Len(s) THEN acc
    ELSE DecimalFrom(s, i + 1, 10 * acc + DigitValue(At(s, i)))

\* the position in text of the first character of segment k
RECURSIVE SegmentStart(_)
SegmentStart(k) == IF k = 1 THEN 1 ELSE SegmentStart(k - 1) + Len(segments[k - 1].content)

(***************************************************************************)
(* C20: the segments tile the text; the citation segments are exactly the  *)
(* occurrences of '[' digits ']' in it, left to right, each with the       *)
(* decimal value of its digits as citationNumber; the text segments are    *)
(* not empty, no two of them are adjacent and none holds a whole marker.   *)
(***************************************************************************)
C20_SegmentsAreMarkersAndText ==
    /\ ConcatContents(segments) = text
    /\ \A k \in 1..Len(segments) :
           LET seg == segments[k]
               p == SegmentStart(k)
           IN  IF seg.type = "citation"
               THEN /\ MarkerAt(text, p, p + Len(seg.content) - 1)
                    /\ Len(seg.citation) = 1
                    /\ seg.citation[1].fullMatch = seg.content
                    /\ seg.citation[1].citationNumber =
                           DecimalFrom(SubSeq(seg.content, 2, Len(seg.content) - 1), 1, 0)
               ELSE /\ seg.type = "text"
                    /\ seg.citation = <<>>
                    /\ seg.content # ""
                    /\ k > 1 => segments[k - 1].type = "citation"
                    /\ MarkerStarts(seg.content) = {}
    /\ \A p \in MarkerStarts(text) :
           \E k \in 1..Len(segments) :
               segments[k].type = "citation" /\ SegmentStart(k) = p

\* two markers side by side, one of several digits, with a dangling bracket
\* before them
C20_Witness ==
    /\ Len(segments) = 3
    /\ segments[1].type = "text"
    /\ segments[2].type = "citation"
    /\ segments[3].type = "citation"
    /\ \E k \in 2..3 : segments[k].citation[1].citationNumber >= 10
    /\ Contains(segments[1].content, "[")

(***************************************************************************)
(* C21: every call of extractSourcesSection, parseFootnoteCitations and    *)
(* parseTextWithFootnotes returns, with the result of the function, also   *)
(* for texts with an unmatched '[', a half-written heading or a truncated  *)
(* source line; every iteration of a scan loop leaves regex.lastIndex      *)
(* further on in the text, behind a match that is not empty.               *)
(***************************************************************************)
\* the value the function in progress is to return
ScanResult ==
    CASE scanFn = "extractSourcesSection" -> <<extractSourcesSection(scanText)>>
      [] scanFn = "parseFootnoteCitations" -> parseFootnoteCitations(scanText)
      [] scanFn = "parseTextWithFootnotes" -> parseTextWithFootnotes(scanText)
      [] OTHER -> <<>>

C21_CallsReturn ==
    /\ [][(scanPc = "running" /\ scanPc' = "running") =>
              (regexLastIndex' > regexLastIndex /\ regexLastIndex' <= Len(scanText) + 1)]_vars
    /\ (scanPc = "running") ~> (scanPc = "returned" /\ scanOut = ScanResult)

\* parseTextWithFootnotes has returned for an unmatched '[', a marker and a
\* half-written heading
C21_Witness ==
    /\ scanPc = "returned"
    /\ scanFn = "parseTextWithFootnotes"
    /\ scanText = "[[2]## Sour"
    /\ Len(scanOut) = 3
    /\ scanOut[2].type = "citation"

(***************************************************************************)
(* C22: uploadDocument never throws.  Every call ends with a response      *)
(* object (a call that has not returned is awaiting toFile or the upload); *)
(* success is true only when the upload call was made and has resolved,    *)
(* and then the response carries the id it resolved with; when the file or *)
(* containerTags field is missing or empty, or containerTags or a          *)
(* non-empty metadata is not parsable JSON, the response is success=false  *)
(* with the error of the first of these checks that fails, and no upload   *)
(* call is made.                                                           *)
(***************************************************************************)
UploadReturned == uploadPc = "returned"

\* the upload call was made and has resolved
UploadCompleted ==
    /\ Len(uploadFileCalls) = 1
    /\ uploadFileCalls[1].outcome \in DocumentIds

FieldMissing(field) == field = <<>> \/ field = <<"">>

\* the error that matches the first fault of the form, "" for a form without
\* fault; whether metadata is at fault is left to the caller
MatchingError(fd, metadataAtFault) ==
    IF FieldMissing(fd.file) THEN "No file provided"
    ELSE IF FieldMissing(fd.containerTags) THEN "No containerTags provided"
    ELSE IF fd.containerTags[1] \notin JSONTexts
         THEN "Invalid containerTags format - must be JSON array string"
    ELSE IF metadataAtFault
         THEN "Invalid metadata format - must be JSON object string"
    ELSE ""

UploadContract(metadataAtFault) ==
    /\ uploadPc \in {"idle", "toFile", "uploadFile", "returned"}
    /\ UploadReturned <=> uploadResponse # NoUploadResponse
    /\ UploadReturned =>
         /\ Len(uploadResponse) = 1
         /\ uploadResponse[1].success =>
               (UploadCompleted /\ uploadResponse[1].documentId = uploadFileCalls[1].outcome)
         /\ MatchingError(formData, metadataAtFault) # "" =>
               /\ uploadResponse[1].success = FALSE
               /\ uploadResponse[1].error = MatchingError(formData, metadataAtFault)
               /\ uploadFileCalls = <<>>

C22_NeverThrows ==
    UploadContract(formData.metadata # <<>> /\ formData.metadata # <<"">>
                   /\ formData.metadata[1] \notin JSONTexts)

\* C22 as stated: every metadata field that is not parsable JSON is at fault,
\* the empty one too
C22_UnparsableMetadataRefused ==
    UploadContract(formData.metadata # <<>> /\ formData.metadata[1] \notin JSONTexts)

\* a form with a file, parsable tags and unparsable metadata was refused
C22_Witness ==
    /\ UploadReturned
    /\ formData = [file |-> <<"a.txt">>, containerTags |-> <<"[\"c\"]">>, metadata |-> <<"{">>]
    /\ uploadResponse[1].error = "Invalid metadata format - must be JSON object string"

\* an upload has completed and was reported
C22_WitnessUploaded ==
    /\ UploadReturned
    /\ uploadResponse[1].success
    /\ UploadCompleted

(***************************************************************************)
(* Vocabulary of the properties of the collection routes.                  *)
(***************************************************************************)
\* DELETE has answered with success
DeleteReported == deleteResponse # NoHandlerResponse /\ deleteResponse[1].success

Stored(id) == \E i \in 1..Len(memories) : memories[i].id = id

\* the positions of the listing whose deletion resolved
Succeeded == {i \in 1..Len(attempted) : attempted[i].deleted}

(***************************************************************************)
(* C23: once DELETE /api/collections/[name] has reported success, no       *)
(* stored document carries that collection's tag.                          *)
(***************************************************************************)
C23_NoDocumentLeft ==
    DeleteReported => \A i \in 1..Len(memories) : ~Carries(memories[i], collectionName)

(***************************************************************************)
(* C27: DELETE attempts the deletion of every memory of the listing, in    *)
(* the order of the listing, also after deletions that failed; the         *)
(* deletedCount it reports is the number of deletions that succeeded, and  *)
(* exactly the memories whose deletion failed are still stored.            *)
(***************************************************************************)
C27_EveryMemoryAttempted ==
    /\ Len(attempted) <= Len(listed)
    /\ \A i \in 1..Len(attempted) : attempted[i].id = listed[i].id
    /\ DeleteReported =>
         /\ Len(attempted) = Len(listed)
         /\ deleteResponse[1].deletedCount = Cardinality(Succeeded)
         /\ \A i \in 1..Len(listed) : Stored(listed[i].id) <=> i \notin Succeeded

\* success was reported after a deletion that failed and a later one that
\* succeeded
C27_Witness ==
    /\ DeleteReported
    /\ Len(attempted) = 2
    /\ ~attempted[1].deleted
    /\ attempted[2].deleted
    /\ deleteResponse[1].deletedCount = 1

(***************************************************************************)
(* C28: POST /api/collections never changes the store.  Its answer is 400  *)
(* for a name that is missing, no string or blank, 409 when a stored       *)
(* memory carries the trimmed name as a tag and 200 with success           *)
(* otherwise, and 500 when the body is no JSON or the listing fails; in    *)
(* every case the collections GET /api/collections returns are the same    *)
(* before and after.  The collections GET returns are in ascending order   *)
(* without duplicates, and each is the tag of a stored memory.             *)
(***************************************************************************)
\* POST answers in this step
Posted == createResponse = NoHandlerResponse /\ createResponse' # NoHandlerResponse

Blank(t) == \A i \in 1..Len(t) : IsWs(At(t, i))

NameOf(body) == body.name[1].text

CarriedByAMemory(tag) == \E i \in 1..Len(memories) : Carries(memories[i], tag)

\* the name reaches the look-up of the existing collections
NameGiven(body) == body.json /\ body.name # <<>> /\ body.name[1].string /\ ~Blank(NameOf(body))

\* the store is as it was; GET, computed from the store alone, answers the same
StoreUntouched == memories' = memories

GETListsTags ==
    LET collections == GET
    IN  /\ \A i \in 1..Len(collections) : CarriedByAMemory(collections[i])
        /\ \A i, j \in 1..Len(collections) :
              i < j => StringLess(collections[i], collections[j])

PostAnswers ==
    LET body == createBody'[1]
        status == createResponse'[1].status
    IN  /\ status \in {200, 400, 409, 500}
        /\ status = 500 => createResponse'[1].error = "Failed to create collection"
        /\ ~body.json => status = 500
        /\ body.json /\ ~NameGiven(body) => status = 400
        /\ NameGiven(body) /\ status # 500 =>
              IF CarriedByAMemory(Trim(NameOf(body))) THEN status = 409
              ELSE status = 200 /\ createResponse'[1].success
        /\ createResponse'[1].success => status = 200

NonBlankText(msg) ==
    \/ msg.parts # <<>> /\ ~Blank(TextOfParts(msg.parts[1]))
    \/ (msg.parts = <<>> \/ TextOfParts(msg.parts[1]) = "")
         /\ msg.content # <<>> /\ ~Blank(msg.content[1])

ValidMessage(msg) == NonBlankText(msg) /\ msg.role \in AllowedRoles

Requested == messages # <<>>

NoValidMessage == \A i \in 1..Len(messages[1]) : ~ValidMessage(messages[1][i])

C29_NoValidMessages400 ==
    (Requested /\ NoValidMessage) =>
        /\ response = NoValidMessagesResponse
        /\ pc = "done"
        /\ searchResults = <<>>
        /\ text = ""

(***************************************************************************)
(* C30: in the document viewer of the chat a document held for display is  *)
(* the document of the selected documentId, and no document is held while  *)
(* the dialog is closed, whatever the order in which the getDocument calls *)
(* complete.                                                               *)
(***************************************************************************)
C30_HeldDocumentIsSelected ==
    /\ doc # <<>> => doc = selectedDocId
    /\ ~viewerOpen => doc = <<>>

(***************************************************************************)
(* C24: while the answer streams in, once extractSourcesSection has found  *)
(* a Sources heading in the text received, the mainText of every later     *)
(* text is the same: what arrives after the heading, another heading       *)
(* included, does not move the split.                                      *)
(***************************************************************************)
C24_MainTextStable == [][WasSplit => mainText' = mainText]_vars

\* prose, a heading, a source line and a second heading have arrived
C24_Witness ==
    /\ WasSplit
    /\ nChunks = 4
    /\ mainText = "A [1][2"
    /\ Cardinality(HeadingPositions(text)) = 2
    /\ Len(sources) = 1

(***************************************************************************)
(* C25: while the answer streams in, the decoded source list only grows:   *)
(* after every step it has at least as many entries as before, each entry  *)
(* is at the index it had, with the number, the title and the url it had,  *)
(* and every entry but the last is unchanged altogether; of the last one,  *)
(* whose line may still be arriving, the collections may change.           *)
(***************************************************************************)
SameCitation(a, b) == a.number = b.number /\ a.title = b.title /\ a.url = b.url

C25_SourcesOnlyGrow ==
    [][/\ Len(sources) <= Len(sources')
       /\ \A i \in 1..Len(sources) :
             /\ SameCitation(sources[i], sources'[i])
             /\ i < Len(sources) => sources'[i] = sources[i]]_vars

\* the line of the first source was cut before the ')' of its link and inside
\* its collections group, and all of it has arrived
C25_Witness ==
    /\ nChunks = 5
    /\ Len(sources) = 1
    /\ sources[1].url = "doc://d"
    /\ sources[1].collections = <<"a", "b">>

(***************************************************************************)
(* C26: the collections of the source at position i are the container tags *)
(* the documents.get of hit i returned, without 'all', whatever order the  *)
(* parallel calls settle in; when the call of hit i fails that source has  *)
(* no collections, the other sources have theirs, and the request goes on  *)
(* to one source per hit and the streamed answer.                          *)
(***************************************************************************)
GetFailed(i) == documentDetails[i].doc = <<>>

\* the tags of the stored document of hit i that are not 'all', in their order
StoredCollections(i) ==
    LET tags == DocumentById(searchResults[i].documentId).containerTags
        kept == {k \in 1..Len(tags) : tags[k] # "all"}
    IN  [n \in 1..Cardinality(kept) |->
            tags[CHOOSE k \in kept : Cardinality({j \in kept : j <= k}) = n]]

C26_CollectionsByPosition ==
    /\ pc = "details" => Len(documentDetails) = Len(searchResults)
    /\ Assembled =>
         /\ Len(settleOrder) = Len(searchResults)
         /\ Len(qaSources) = Len(searchResults)
         /\ response = TextStreamResponse
         /\ \A i \in 1..Len(searchResults) :
               qaSources[i].collections =
                   IF GetFailed(i) THEN <<>> ELSE StoredCollections(i)

\* the call of the second hit settled first; the call of the first hit failed
\* and the second source has its collections
C26_Witness ==
    /\ Assembled
    /\ settleOrder = <<2, 1>>
    /\ GetFailed(1)
    /\ ~GetFailed(2)
    /\ qaSources[1].collections = <<>>
    /\ Len(qaSources[2].collections) > 0

\* both calls succeeded, the second first, for documents with different
\* collections
C26_WitnessBothFetched ==
    /\ Assembled
    /\ settleOrder = <<2, 1>>
    /\ ~GetFailed(1)
    /\ ~GetFailed(2)
    /\ qaSources[1].collections # qaSources[2].collections

====
